---- MODULE Spec2Model ----
(***************************************************************************)
(* Model of the query/filter/cache orchestration core of src/app.py:       *)
(* build_where_clause, execute_sql_query, the cached filter-option lookup,  *)
(* the three cached aggregate fetchers, and the per-session render script  *)
(* that sequences them.                                                    *)
(*                                                                         *)
(* Python strings are sequences of one-character strings, so that          *)
(* str.replace, f-string interpolation and " AND ".join are computed       *)
(* character by character.                                                 *)
(***************************************************************************)
EXTENDS Integers, Sequences, FiniteSets, TLC

VARIABLES
    args,           \* the twelve arguments of one build_where_clause call
    where_clause,   \* its return value (NotCalled before the call)
    storeData,      \* the contents of the backing store (which dataset it holds)
    connCache,      \* the st.cache_resource entry of get_connection
    connBroken,     \* the connection handles that no longer work
    frame,          \* per caller: the locals of its execute_sql_query call
    tally,          \* per caller: what the call in progress did so far
    resultCache,    \* the st.cache_data entries of the three fetchers
    fetch,          \* per session: the locals of its fetcher call
    session,        \* per session: st.session_state, the form and the script position
    hist,           \* per session: what earlier fetches and renders did
    optionCache,    \* the st.cache_data(ttl=3600) entry of get_filter_options
    optionCall,     \* per session: the locals of its get_filter_options call
    activeTab,      \* per session: the tab of st.tabs the browser shows
    vuln_results,   \* the rows one vulnerability query returned
    vuln_bundle,    \* the dict built from them, in a sequence (empty before)
    alias,          \* the alias argument of build_where_clause_with_alias
    aliased_clause  \* what that call returned (NotCalled before the call)

vulnVars == <<vuln_results, vuln_bundle>>
aliasVars == <<alias, aliased_clause>>
predVars == <<args, where_clause, vulnVars, aliasVars>>
execVars == <<storeData, connCache, connBroken, frame, tally>>
optVars == <<optionCache, optionCall>>
sessVars == <<resultCache, fetch, session, hist, optVars, activeTab>>
vars == <<predVars, execVars, sessVars>>

-----------------------------------------------------------------------------
(* Bounds *)

MaxValueLen == 2    \* longest filter value, in characters
MaxSetFields == 2   \* most fields set at once with independently chosen values
MaxBucketRows == 102    \* most rows of one relevance in a vulnerability result

-----------------------------------------------------------------------------
(* Values *)

\* The single-quote character and the other characters a value is made of.
Quote == "'"
Alphabet == {Quote, "a", ";"}

\* Python None.  It is a sequence, like every string of the model, but holds
\* an element that is no character, so it differs from every string.
None == <<"None">>

NotCalled == <<"NotCalled">>

RECURSIVE StringsOfLen(_)
StringsOfLen(n) ==
    IF n = 0 THEN {<<>>}
    ELSE {Append(s, c) : s \in StringsOfLen(n - 1), c \in Alphabet}

\* The values a select box can hold: get_filter_options keeps only truthy
\* (hence non-empty) strings.
FilterValues == UNION {StringsOfLen(n) : n \in 1..MaxValueLen}

\* Parameter order of build_where_clause and of the fetchers.
FieldOrder ==
    <<"region", "vertical", "organization", "industry", "account_status",
      "vendor", "device_category", "device_type_family", "device_subcategory",
      "model", "os_name", "mac_oui">>

Fields == {FieldOrder[i] : i \in 1..Len(FieldOrder)}

AllUnset == [f \in Fields |-> None]

-----------------------------------------------------------------------------
(* build_where_clause *)

RECURSIVE ReplaceQuote(_)
\* str.replace("'", "''")
ReplaceQuote(s) ==
    IF s = <<>> THEN <<>>
    ELSE IF Head(s) = Quote
         THEN <<Quote, Quote>> \o ReplaceQuote(Tail(s))
         ELSE <<Head(s)>> \o ReplaceQuote(Tail(s))

escape_sql_string_unescaped(value) ==
    IF value = None THEN <<>> ELSE value

escape_sql_string(value) ==
    IF value = None THEN <<>> ELSE ReplaceQuote(value)

\* f"<column> = '{escape_sql_string(value)}'"
EqualityCondition(column, value) ==
    column \o <<" ", "=", " ", "'">> \o escape_sql_string(value) \o <<"'">>

MembershipCondition_asEquality(value) ==
    <<"m","a","c","_","o","u","i">> \o <<" ", "=", " ", "'">>
        \o escape_sql_string(value) \o <<"'">>

\* f"array_contains(mac_oui_list, '{escape_sql_string(mac_oui)}')"
MembershipCondition(value) ==
    <<"a","r","r","a","y","_","c","o","n","t","a","i","n","s","(",
      "m","a","c","_","o","u","i","_","l","i","s","t",","," ","'">>
        \o escape_sql_string(value) \o <<"'", ")">>

RECURSIVE JoinAnd(_)
\* " AND ".join(where_conditions)
JoinAnd(conds) ==
    IF conds = <<>> THEN <<>>
    ELSE IF Len(conds) = 1 THEN conds[1]
    ELSE conds[1] \o <<" ", "A", "N", "D", " ">> \o JoinAnd(Tail(conds))

WhereResult_noDefault(where_conditions) ==
    JoinAnd(where_conditions)

\* " AND ".join(where_conditions) if where_conditions else "1=1"
WhereResult(where_conditions) ==
    IF where_conditions # <<>> THEN JoinAnd(where_conditions)
    ELSE <<"1", "=", "1">>

\* "if x is not None: where_conditions.append(cond)"
AppendIfSet(where_conditions, value, cond) ==
    IF value # None THEN Append(where_conditions, cond) ELSE where_conditions

build_where_clause(region, vertical, organization, industry, account_status, vendor, device_category, device_type_family, device_subcategory, model, os_name, mac_oui) ==
    LET w0 == <<>>
        w1 == AppendIfSet(w0, region,
                EqualityCondition(<<"r","e","g","i","o","n">>, region))
        w2 == AppendIfSet(w1, vertical,
                EqualityCondition(<<"v","e","r","t","i","c","a","l">>, vertical))
        w3 == AppendIfSet(w2, organization,
                EqualityCondition(<<"o","r","g","a","n","i","z","a","t","i","o","n">>,
                                  organization))
        w4 == AppendIfSet(w3, industry,
                EqualityCondition(<<"i","n","d","u","s","t","r","y">>, industry))
        w5 == AppendIfSet(w4, account_status,
                EqualityCondition(<<"a","c","c","o","u","n","t","_","s","t","a","t","u","s">>,
                                  account_status))
        w6 == AppendIfSet(w5, vendor,
                EqualityCondition(<<"v","e","n","d","o","r">>, vendor))
        w7 == AppendIfSet(w6, device_category,
                EqualityCondition(<<"d","e","v","i","c","e","_","c","a","t","e","g","o","r","y">>,
                                  device_category))
        w8 == AppendIfSet(w7, device_type_family,
                EqualityCondition(<<"d","e","v","i","c","e","_","t","y","p","e","_",
                                    "f","a","m","i","l","y">>, device_type_family))
        w9 == AppendIfSet(w8, device_subcategory,
                EqualityCondition(<<"d","e","v","i","c","e","_","s","u","b","c","a","t","e",
                                    "g","o","r","y">>, device_subcategory))
        w10 == AppendIfSet(w9, model,
                EqualityCondition(<<"m","o","d","e","l">>, model))
        w11 == AppendIfSet(w10, os_name,
                EqualityCondition(<<"o","s","_","n","a","m","e">>, os_name))
        w12 == AppendIfSet(w11, mac_oui, MembershipCondition(mac_oui))
    IN  WhereResult(w12)

\* A call with the fields of a FilterSelection, as every call site passes them.
WhereOf(fs) ==
    build_where_clause(fs["region"], fs["vertical"], fs["organization"],
                       fs["industry"], fs["account_status"], fs["vendor"],
                       fs["device_category"], fs["device_type_family"],
                       fs["device_subcategory"], fs["model"], fs["os_name"],
                       fs["mac_oui"])

-----------------------------------------------------------------------------
(* build_where_clause_with_alias *)

\* alias='d'
DefaultAlias == <<"d">>

\* f"{alias}.<column> = '{escape_sql_string(value)}'"
AliasedEqualityCondition(a, column, value) ==
    a \o <<".">> \o column \o <<" ", "=", " ", "'">> \o escape_sql_string(value)
        \o <<"'">>

AliasedMembershipCondition_noAlias(a, value) == MembershipCondition(value)

\* f"array_contains({alias}.mac_oui_list, '{escape_sql_string(mac_oui)}')"
AliasedMembershipCondition(a, value) ==
    <<"a","r","r","a","y","_","c","o","n","t","a","i","n","s","(">> \o a
        \o <<".", "m","a","c","_","o","u","i","_","l","i","s","t",","," ","'">>
        \o escape_sql_string(value) \o <<"'", ")">>

build_where_clause_with_alias(region, vertical, organization, industry, account_status, vendor, device_category, device_type_family, device_subcategory, model, os_name, mac_oui, a) ==
    LET w0 == <<>>
        w1 == AppendIfSet(w0, region,
                AliasedEqualityCondition(a, <<"r","e","g","i","o","n">>, region))
        w2 == AppendIfSet(w1, vertical,
                AliasedEqualityCondition(a, <<"v","e","r","t","i","c","a","l">>, vertical))
        w3 == AppendIfSet(w2, organization,
                AliasedEqualityCondition(a,
                    <<"o","r","g","a","n","i","z","a","t","i","o","n">>, organization))
        w4 == AppendIfSet(w3, industry,
                AliasedEqualityCondition(a, <<"i","n","d","u","s","t","r","y">>, industry))
        w5 == AppendIfSet(w4, account_status,
                AliasedEqualityCondition(a,
                    <<"a","c","c","o","u","n","t","_","s","t","a","t","u","s">>,
                    account_status))
        w6 == AppendIfSet(w5, vendor,
                AliasedEqualityCondition(a, <<"v","e","n","d","o","r">>, vendor))
        w7 == AppendIfSet(w6, device_category,
                AliasedEqualityCondition(a,
                    <<"d","e","v","i","c","e","_","c","a","t","e","g","o","r","y">>,
                    device_category))
        w8 == AppendIfSet(w7, device_type_family,
                AliasedEqualityCondition(a,
                    <<"d","e","v","i","c","e","_","t","y","p","e","_",
                      "f","a","m","i","l","y">>, device_type_family))
        w9 == AppendIfSet(w8, device_subcategory,
                AliasedEqualityCondition(a,
                    <<"d","e","v","i","c","e","_","s","u","b","c","a","t","e",
                      "g","o","r","y">>, device_subcategory))
        w10 == AppendIfSet(w9, model,
                AliasedEqualityCondition(a, <<"m","o","d","e","l">>, model))
        w11 == AppendIfSet(w10, os_name,
                AliasedEqualityCondition(a, <<"o","s","_","n","a","m","e">>, os_name))
        w12 == AppendIfSet(w11, mac_oui, AliasedMembershipCondition(a, mac_oui))
    IN  WhereResult(w12)

\* A call with the fields of a FilterSelection and an alias.
AliasedWhereOf(fs, a) ==
    build_where_clause_with_alias(fs["region"], fs["vertical"], fs["organization"],
                                  fs["industry"], fs["account_status"], fs["vendor"],
                                  fs["device_category"], fs["device_type_family"],
                                  fs["device_subcategory"], fs["model"], fs["os_name"],
                                  fs["mac_oui"], a)

-----------------------------------------------------------------------------
(* The backing store *)

\* The sessions of the process; each runs its script, and the calls the
\* script makes, in its own thread.
Sessions == {1, 2}

\* Two FilterSelections of the dashboard besides the all-unset one.
SelVendor == [AllUnset EXCEPT !["vendor"] = <<"a", Quote>>]
SelMacOui == [AllUnset EXCEPT !["mac_oui"] = <<Quote, ";">>]

\* The datasets the store can hold: 0 is an empty store, 1 a populated one.
Datasets == {0, 1}

\* How many devices of the dataset satisfy a predicate.
MatchCount(data, where) ==
    IF data = 0 THEN 0
    ELSE IF where = WhereOf(AllUnset) THEN 2
    ELSE IF where = WhereOf(SelVendor) THEN 1
    ELSE 0

\* The columns of each query's result, as the fetchers name them.
Columns(name) ==
    CASE name \in {"top_devices", "risk_critical", "risk_high", "risk_medium"} ->
            <<"vendor", "device_type_family", "model", "count">>
      [] name = "subcategory" -> <<"device_subcategory", "count">>
      [] name = "category" -> <<"device_category", "count">>
      [] name = "os_dist" -> <<"os_name", "count">>
      [] name = "vendor_dist" -> <<"vendor", "count">>
      [] name = "total_devices" -> <<"total_count">>
      [] name = "source_coverage" -> <<"source", "device_count">>
      [] name = "org_dist" -> <<"organization", "count">>
      [] name = "risk_dist" -> <<"risk_score", "count">>
      [] name = "vuln" ->
            <<"effective_relevance", "advisory_name", "source_name", "count">>
      [] name = "org_filters" ->
            <<"region", "vertical", "organization", "industry", "account_status">>
      [] name = "device_filters" ->
            <<"vendor", "device_type_family", "device_subcategory",
              "device_category", "model", "os_name", "mac_oui">>

\* The rows of the two pre-calculated filter tables.  The populated store
\* holds two regions, listed out of order, and one vendor, listed twice;
\* the other columns are NULL or the empty string.
OptionRows(data, name) ==
    IF data = 0 THEN <<>>
    ELSE IF name = "org_filters"
    THEN << <<<<"b">>, None, None, None, <<>> >>,
            <<<<"a">>, None, None, None, None>> >>
    ELSE << <<<<"a", Quote>>, None, <<>>, None, None, None, None>>,
            <<<<"a", Quote>>, None, None, None, None, None, None>> >>

\* The rows the store answers a query with: COUNT(*) without GROUP BY is one
\* row; a grouped query has one row per group, highest count first.
StoreRows(data, q) ==
    LET n == MatchCount(data, q.where)
        w == Len(Columns(q.name))
    IN  IF q.name \in {"org_filters", "device_filters"} THEN OptionRows(data, q.name)
        ELSE IF q.name = "total_devices" THEN << <<n>> >>
        ELSE IF q.name = "vuln"
        THEN [i \in 1..n |->
                <<IF i = 1 THEN "Confirmed" ELSE "Potentially Relevant",
                  "v", "v", n + 1 - i>>]
        ELSE [i \in 1..n |-> [j \in 1..w |-> IF j = w THEN n + 1 - i ELSE "v"]]

-----------------------------------------------------------------------------
(* get_connection and execute_sql_query *)

NoConnection == 0
ConnIds == 1..(Cardinality(Sessions) + 1)

NoCursor == "None"
NoQuery == [name |-> "none", where |-> <<>>]
NoResult == [kind |-> "pending"]

max_retries == 1

ShouldRetry_lastToo(attempt) == attempt <= max_retries

\* "if attempt < max_retries"
ShouldRetry(attempt) == attempt < max_retries

\* range(max_retries + 1)
InRange(attempt) == attempt \in 0..max_retries

get_connection_clear_noop(cache) == cache

\* get_connection.clear()
get_connection_clear(cache) == NoConnection

CursorClose_leak(open) == open

\* cursor.close(): the cursor is no longer open (an exception it raises is
\* swallowed by the bare except)
CursorClose(open) == open - 1

IdleFrame ==
    [pc |-> "idle", attempt |-> 0, connection |-> NoConnection,
     cursor |-> NoCursor, pending |-> "none", query |-> NoQuery,
     result |-> NoResult]

\* resets: calls of get_connection.clear(); created: connections created in
\* the current attempt; opened: cursors opened; open: cursors opened and not
\* closed; fetched: the rows the store handed to the last fetchall.
ZeroTally ==
    [resets |-> 0, created |-> 0, opened |-> 0, open |-> 0, fetched |-> <<>>]

\* Counters saturate, so that they stay bounded whatever the call does.
Inc(n) == IF n < 3 THEN n + 1 ELSE n

\* The handles still referred to by the cache or by a call in progress; a
\* handle nothing refers to any more is forgotten (connBroken keeps only
\* handles in use).
ConnsInUse ==
    ({connCache} \cup {frame[c].connection : c \in Sessions}) \ {NoConnection}

\* execute_sql_query(query) is entered: attempt 0 begins.
EnterExecute(c, q) ==
    /\ frame' = [frame EXCEPT ![c] = [IdleFrame EXCEPT !.pc = "connect", !.query = q]]
    /\ tally' = [tally EXCEPT ![c] = ZeroTally]

\* connection = get_connection(), the cached handle is returned.
GetConnectionCached(c) ==
    /\ frame[c].pc = "connect"
    /\ connCache # NoConnection
    /\ frame' = [frame EXCEPT ![c].connection = connCache, ![c].pc = "cursor"]
    /\ UNCHANGED <<storeData, connCache, connBroken, tally>>
    /\ UNCHANGED <<predVars, sessVars>>

\* connection = get_connection(), nothing is cached: sql.connect creates a
\* handle and st.cache_resource keeps it.
GetConnectionCreate(c) ==
    /\ frame[c].pc = "connect"
    /\ connCache = NoConnection
    /\ LET id == CHOOSE i \in ConnIds : i \notin ConnsInUse
       IN  /\ connCache' = id
           /\ connBroken' = connBroken \ {id}
           /\ frame' = [frame EXCEPT ![c].connection = id, ![c].pc = "cursor"]
    /\ tally' = [tally EXCEPT ![c].created = Inc(@)]
    /\ UNCHANGED storeData
    /\ UNCHANGED <<predVars, sessVars>>

\* connection = get_connection(), nothing is cached and sql.connect raises:
\* nothing is cached.
GetConnectionFails(c) ==
    /\ frame[c].pc = "connect"
    /\ connCache = NoConnection
    /\ frame' = [frame EXCEPT ![c].pc = "except"]
    /\ UNCHANGED <<storeData, connCache, connBroken, tally>>
    /\ UNCHANGED <<predVars, sessVars>>

\* cursor = connection.cursor()
OpenCursor(c) ==
    /\ frame[c].pc = "cursor"
    /\ frame[c].connection \notin connBroken
    /\ frame' = [frame EXCEPT ![c].cursor = "cursor", ![c].pc = "execute"]
    /\ tally' = [tally EXCEPT ![c].opened = Inc(@), ![c].open = Inc(@)]
    /\ UNCHANGED <<storeData, connCache, connBroken>>
    /\ UNCHANGED <<predVars, sessVars>>

\* connection.cursor() raises on a handle that no longer works.
OpenCursorFails(c) ==
    /\ frame[c].pc = "cursor"
    /\ frame[c].connection \in connBroken
    /\ frame' = [frame EXCEPT ![c].pc = "except"]
    /\ UNCHANGED <<storeData, connCache, connBroken, tally>>
    /\ UNCHANGED <<predVars, sessVars>>

\* cursor.execute(query)
ExecuteQuery(c) ==
    /\ frame[c].pc = "execute"
    /\ frame[c].connection \notin connBroken
    /\ frame' = [frame EXCEPT ![c].pc = "fetchall"]
    /\ UNCHANGED <<storeData, connCache, connBroken, tally>>
    /\ UNCHANGED <<predVars, sessVars>>

\* cursor.execute(query) raises: the handle no longer works, or the store
\* rejects or fails the query.
ExecuteQueryFails(c) ==
    /\ frame[c].pc = "execute"
    /\ frame' = [frame EXCEPT ![c].pc = "except"]
    /\ UNCHANGED <<storeData, connCache, connBroken, tally>>
    /\ UNCHANGED <<predVars, sessVars>>

\* result = cursor.fetchall(); return result
Fetchall(c) ==
    /\ frame[c].pc = "fetchall"
    /\ frame[c].connection \notin connBroken
    /\ frame' = [frame EXCEPT
            ![c].result = [kind |-> "rows", rows |-> StoreRows(storeData, frame[c].query)],
            ![c].pending = "return",
            ![c].pc = "finally"]
    /\ tally' = [tally EXCEPT ![c].fetched = StoreRows(storeData, frame[c].query)]
    /\ UNCHANGED <<storeData, connCache, connBroken>>
    /\ UNCHANGED <<predVars, sessVars>>

\* cursor.fetchall() raises.
FetchallFails(c) ==
    /\ frame[c].pc = "fetchall"
    /\ frame' = [frame EXCEPT ![c].pc = "except"]
    /\ UNCHANGED <<storeData, connCache, connBroken, tally>>
    /\ UNCHANGED <<predVars, sessVars>>

\* except Exception as e: clear the cached connection and go on to the next
\* attempt, or re-raise e.
ExceptClause(c) ==
    /\ frame[c].pc = "except"
    /\ IF ShouldRetry(frame[c].attempt)
       THEN /\ connCache' = get_connection_clear(connCache)
            /\ connBroken' = connBroken \cap
                    ({get_connection_clear(connCache)}
                        \cup {frame[k].connection : k \in Sessions})
            /\ tally' = [tally EXCEPT ![c].resets = Inc(@)]
            /\ frame' = [frame EXCEPT ![c].pending = "continue", ![c].pc = "finally"]
       ELSE /\ frame' = [frame EXCEPT
                    ![c].result = [kind |-> "error", attempt |-> frame[c].attempt],
                    ![c].pending = "raise",
                    ![c].pc = "finally"]
            /\ UNCHANGED <<connCache, connBroken, tally>>
    /\ UNCHANGED storeData
    /\ UNCHANGED <<predVars, sessVars>>

\* finally: close the cursor if one was opened; then the return or the raise
\* takes effect, or the loop goes on: to the next attempt, or past its end,
\* where the function returns None.
FinallyClause(c) ==
    /\ frame[c].pc = "finally"
    /\ frame' = [frame EXCEPT ![c] =
            IF frame[c].pending \in {"return", "raise"}
            THEN [@ EXCEPT !.pc = "done", !.cursor = NoCursor,
                           !.connection = NoConnection]
            ELSE IF InRange(frame[c].attempt + 1)
            THEN [@ EXCEPT !.pc = "connect", !.attempt = @ + 1,
                           !.cursor = NoCursor, !.connection = NoConnection,
                           !.pending = "none"]
            ELSE [@ EXCEPT !.pc = "done", !.cursor = NoCursor,
                           !.connection = NoConnection,
                           !.result = [kind |-> "none"]]]
    /\ tally' = [tally EXCEPT
            ![c].open = IF frame[c].cursor # NoCursor THEN CursorClose(@) ELSE @,
            ![c].created = IF frame[c].pending = "continue" /\ InRange(frame[c].attempt + 1)
                           THEN 0 ELSE @]
    /\ connBroken' = connBroken \cap
            ({connCache} \cup {frame[k].connection : k \in Sessions \ {c}})
    /\ UNCHANGED <<storeData, connCache>>
    /\ UNCHANGED <<predVars, sessVars>>

\* The cached connection stops working (session expiry, transport loss).
ConnectionBreaks ==
    /\ connCache # NoConnection
    /\ connCache \notin connBroken
    /\ connBroken' = connBroken \cup {connCache}
    /\ UNCHANGED <<storeData, connCache, frame, tally>>
    /\ UNCHANGED <<predVars, sessVars>>

\* The contents of the store change.  The model lets them change between the
\* calls of execute_sql_query only while no script is running, so that the
\* rows of one bundle come from one dataset.
StoreChanges ==
    /\ \A s \in Sessions :
            frame[s].pc = "idle" /\ fetch[s].pc = "none" /\ optionCall[s].pc = "none"
    /\ \E d \in Datasets \ {storeData} : storeData' = d
    /\ hist' = [hist EXCEPT !.apply = [s \in Sessions |-> [@[s] EXCEPT !.storeSame = FALSE]]]
    /\ UNCHANGED <<connCache, connBroken, frame, tally>>
    /\ UNCHANGED <<predVars, resultCache, fetch, session, optVars, activeTab>>

InitExec ==
    /\ storeData \in Datasets
    /\ connCache = NoConnection
    /\ connBroken = {}
    /\ frame = [c \in Sessions |-> IdleFrame]
    /\ tally = [c \in Sessions |-> ZeroTally]

-----------------------------------------------------------------------------
(* The aggregate fetchers and their st.cache_data cache *)

Fetchers == {"global", "risk", "vuln"}

QueryNames_totalFirst(f) ==
    CASE f = "global" ->
            <<"total_devices", "top_devices", "subcategory", "category", "os_dist",
              "vendor_dist", "source_coverage", "org_dist">>
      [] f = "risk" -> <<"risk_dist", "risk_critical", "risk_high", "risk_medium">>
      [] f = "vuln" -> <<"vuln">>

\* The queries of each fetcher, in the order of its execute_sql_query calls.
QueryNames(f) ==
    CASE f = "global" ->
            <<"top_devices", "subcategory", "category", "os_dist", "vendor_dist",
              "total_devices", "source_coverage", "org_dist">>
      [] f = "risk" -> <<"risk_dist", "risk_critical", "risk_high", "risk_medium">>
      [] f = "vuln" -> <<"vuln">>

\* pd.DataFrame(results, columns=[...]) and pd.DataFrame()
DataFrame(rows, columns) == [columns |-> columns, rows |-> rows]
EmptyDataFrame == [columns |-> <<>>, rows |-> <<>>]

\* DataFrame.empty: some axis has length zero
IsEmpty(df) == Len(df.rows) = 0 \/ Len(df.columns) = 0

RECURSIVE SumCount(_)
\* df['count'].sum() over the rows of the vulnerability query
SumCount(rows) ==
    IF rows = <<>> THEN 0 ELSE Head(rows)[4] + SumCount(Tail(rows))

\* df_all[df_all['effective_relevance'] == relevance]
RowsOfRelevance(rows, relevance) ==
    LET Is(r) == r[1] = relevance IN SelectSeq(rows, Is)

DisplayLimit == 100

DisplayRows_untruncated(rows) ==
    DataFrame([i \in 1..Len(rows) |-> <<rows[i][2], rows[i][3], rows[i][4]>>],
              <<"advisory_name", "source_name", "count">>)

\* df[['advisory_name', 'source_name', 'count']].head(100).reset_index(drop=True)
DisplayRows(rows) ==
    LET kept == SubSeq(rows, 1, IF Len(rows) < DisplayLimit THEN Len(rows)
                                ELSE DisplayLimit)
    IN  DataFrame([i \in 1..Len(kept) |-> <<kept[i][2], kept[i][3], kept[i][4]>>],
                  <<"advisory_name", "source_name", "count">>)

\* The dict a fetcher returns when all its queries returned rows; results
\* holds the row lists in query order.
SuccessBundle(f, results) ==
    CASE f = "global" ->
            [top_devices |-> DataFrame(results[1], Columns("top_devices")),
             subcategory |-> DataFrame(results[2], Columns("subcategory")),
             category |-> DataFrame(results[3], Columns("category")),
             os_dist |-> DataFrame(results[4], Columns("os_dist")),
             vendor_dist |-> DataFrame(results[5], Columns("vendor_dist")),
             total_devices |-> IF results[6] # <<>> THEN results[6][1][1] ELSE 0,
             source_coverage |-> DataFrame(results[7], Columns("source_coverage")),
             org_dist |-> DataFrame(results[8], Columns("org_dist"))]
      [] f = "risk" ->
            [risk_dist |-> DataFrame(results[1], Columns("risk_dist")),
             risk_critical |-> DataFrame(results[2], Columns("risk_critical")),
             risk_high |-> DataFrame(results[3], Columns("risk_high")),
             risk_medium |-> DataFrame(results[4], Columns("risk_medium"))]
      [] f = "vuln" ->
            LET df_confirmed_all == RowsOfRelevance(results[1], "Confirmed")
                df_potential_all == RowsOfRelevance(results[1], "Potentially Relevant")
            IN  [vuln_confirmed |-> DisplayRows(df_confirmed_all),
                 vuln_potential |-> DisplayRows(df_potential_all),
                 vuln_confirmed_total |->
                    IF df_confirmed_all # <<>> THEN SumCount(df_confirmed_all) ELSE 0,
                 vuln_potential_total |->
                    IF df_potential_all # <<>> THEN SumCount(df_potential_all) ELSE 0]

FallbackBundle_topDevicesKept(f) ==
    CASE f = "global" ->
            [top_devices |-> DataFrame(<<>>, Columns("top_devices")),
             subcategory |-> EmptyDataFrame,
             category |-> EmptyDataFrame, os_dist |-> EmptyDataFrame,
             vendor_dist |-> EmptyDataFrame, total_devices |-> 0,
             source_coverage |-> EmptyDataFrame, org_dist |-> EmptyDataFrame]
      [] f = "risk" ->
            [risk_dist |-> DataFrame(<<>>, Columns("risk_dist")),
             risk_critical |-> EmptyDataFrame,
             risk_high |-> EmptyDataFrame, risk_medium |-> EmptyDataFrame]
      [] f = "vuln" ->
            [vuln_confirmed |-> EmptyDataFrame, vuln_potential |-> EmptyDataFrame,
             vuln_confirmed_total |-> 0, vuln_potential_total |-> 0]

\* The dict a fetcher returns from its except clause.
FallbackBundle(f) ==
    CASE f = "global" ->
            [top_devices |-> EmptyDataFrame, subcategory |-> EmptyDataFrame,
             category |-> EmptyDataFrame, os_dist |-> EmptyDataFrame,
             vendor_dist |-> EmptyDataFrame, total_devices |-> 0,
             source_coverage |-> EmptyDataFrame, org_dist |-> EmptyDataFrame]
      [] f = "risk" ->
            [risk_dist |-> EmptyDataFrame, risk_critical |-> EmptyDataFrame,
             risk_high |-> EmptyDataFrame, risk_medium |-> EmptyDataFrame]
      [] f = "vuln" ->
            [vuln_confirmed |-> EmptyDataFrame, vuln_potential |-> EmptyDataFrame,
             vuln_confirmed_total |-> 0, vuln_potential_total |-> 0]

Catches_globalOnly(f) == f = "global"

\* "except Exception as e" around the whole body of each fetcher
Catches(f) == f \in {"global", "risk", "vuln"}

CacheKey_fieldsOnly(f, fs) == <<"fetcher", fs>>

\* The st.cache_data key: the decorated function and its twelve arguments.
CacheKey(f, fs) == <<f, fs>>

IdleFetch ==
    [pc |-> "none", fetcher |-> "none", sel |-> AllUnset, where_clause |-> <<>>,
     results |-> <<>>, ret |-> <<>>, hit |-> FALSE, signalled |-> FALSE,
     queries |-> 0, issued |-> <<>>]

\* issued: the queries the call has passed to execute_sql_query so far, in
\* order.
\* A session calls fetcher f with the FilterSelection fs.
EnterFetch(s, f, fs) ==
    [fetch EXCEPT ![s] = [IdleFetch EXCEPT !.pc = "lookup", !.fetcher = f, !.sel = fs]]

\* The record of fetcher bodies run and of what each key's first run returned.
BodyRun(key) ==
    [hist EXCEPT !.runs = [k \in DOMAIN @ \cup {key} |->
                            IF k = key
                            THEN (IF key \in DOMAIN @ THEN Inc(@[key]) ELSE 1)
                            ELSE @[k]]]

Computed(h, key, bundle) ==
    [h EXCEPT !.first = IF key \in DOMAIN @ THEN @
                        ELSE [k \in DOMAIN @ \cup {key} |->
                                IF k = key THEN bundle ELSE @[k]]]

CacheStore_dropped(key, bundle) == resultCache

CacheStore_onlyLatest(key, bundle) == [k \in {key} |-> bundle]

\* st.cache_data stores the value the body returned.
CacheStore(key, bundle) ==
    [k \in DOMAIN resultCache \cup {key} |->
        IF k = key THEN bundle ELSE resultCache[k]]

\* The call finds its key in the cache: the cached value is returned and the
\* body does not run.
CacheHit(s) ==
    /\ fetch[s].pc = "lookup"
    /\ CacheKey(fetch[s].fetcher, fetch[s].sel) \in DOMAIN resultCache
    /\ fetch' = [fetch EXCEPT
            ![s].ret = resultCache[CacheKey(fetch[s].fetcher, fetch[s].sel)],
            ![s].hit = TRUE,
            ![s].pc = "return"]
    /\ UNCHANGED <<predVars, execVars, resultCache, session, hist, optVars, activeTab>>

\* The key is not cached: the body runs, builds the predicate and issues its
\* first query.
CacheMiss(s) ==
    /\ fetch[s].pc = "lookup"
    /\ CacheKey(fetch[s].fetcher, fetch[s].sel) \notin DOMAIN resultCache
    /\ LET w == WhereOf(fetch[s].sel)
           q == [name |-> QueryNames(fetch[s].fetcher)[1], where |-> w]
       IN  /\ fetch' = [fetch EXCEPT ![s].where_clause = w, ![s].pc = "query",
                                     ![s].queries = 1, ![s].issued = <<q>>]
           /\ EnterExecute(s, q)
    /\ hist' = BodyRun(<<fetch[s].fetcher, fetch[s].sel>>)
    /\ UNCHANGED <<predVars, storeData, connCache, connBroken, resultCache,
                   session, optVars, activeTab>>

\* A query that is not the fetcher's last returned rows: the next is issued.
QueryReturns(s) ==
    /\ fetch[s].pc = "query"
    /\ frame[s].pc = "done"
    /\ frame[s].result.kind = "rows"
    /\ Len(fetch[s].results) + 1 < Len(QueryNames(fetch[s].fetcher))
    /\ LET q == [name |-> QueryNames(fetch[s].fetcher)[Len(fetch[s].results) + 2],
                 where |-> fetch[s].where_clause]
       IN  /\ fetch' = [fetch EXCEPT ![s].results = Append(@, frame[s].result.rows),
                                     ![s].queries = Inc(@),
                                     ![s].issued = Append(@, q)]
           /\ EnterExecute(s, q)
    /\ UNCHANGED <<predVars, storeData, connCache, connBroken, resultCache,
                   session, hist, optVars, activeTab>>

\* The fetcher's last query returned rows: the bundle is built, returned and
\* cached.
LastQueryReturns(s) ==
    /\ fetch[s].pc = "query"
    /\ frame[s].pc = "done"
    /\ frame[s].result.kind = "rows"
    /\ Len(fetch[s].results) + 1 = Len(QueryNames(fetch[s].fetcher))
    /\ LET bundle == SuccessBundle(fetch[s].fetcher,
                                   Append(fetch[s].results, frame[s].result.rows))
       IN  /\ fetch' = [fetch EXCEPT ![s].results = Append(@, frame[s].result.rows),
                                     ![s].ret = bundle, ![s].pc = "return"]
           /\ resultCache' = CacheStore(CacheKey(fetch[s].fetcher, fetch[s].sel), bundle)
           /\ hist' = Computed(hist, <<fetch[s].fetcher, fetch[s].sel>>, bundle)
    /\ frame' = [frame EXCEPT ![s] = IdleFrame]
    /\ tally' = [tally EXCEPT ![s] = ZeroTally]
    /\ UNCHANGED <<predVars, storeData, connCache, connBroken, session, optVars, activeTab>>

\* execute_sql_query raised: the except clause reports the error with
\* st.error and returns the fallback dict, which st.cache_data caches like
\* any return value.
QueryRaises(s) ==
    /\ fetch[s].pc = "query"
    /\ frame[s].pc = "done"
    /\ frame[s].result.kind = "error"
    /\ IF Catches(fetch[s].fetcher)
       THEN LET bundle == FallbackBundle(fetch[s].fetcher)
            IN  /\ fetch' = [fetch EXCEPT ![s].signalled = TRUE, ![s].ret = bundle,
                                          ![s].pc = "return"]
                /\ resultCache' =
                        CacheStore(CacheKey(fetch[s].fetcher, fetch[s].sel), bundle)
                /\ hist' = Computed(hist, <<fetch[s].fetcher, fetch[s].sel>>, bundle)
       ELSE /\ fetch' = [fetch EXCEPT ![s].pc = "raised"]
            /\ UNCHANGED <<resultCache, hist>>
    /\ frame' = [frame EXCEPT ![s] = IdleFrame]
    /\ tally' = [tally EXCEPT ![s] = ZeroTally]
    /\ UNCHANGED <<predVars, storeData, connCache, connBroken, session, optVars, activeTab>>

-----------------------------------------------------------------------------
(* get_filter_options and its st.cache_data(ttl=3600) entry *)

ttl == 3600

\* The step of the clock, in seconds: time passes in steps of this length.
TickSeconds == 1800

\* The queries of get_filter_options, in the order of its calls.
OptionQueries == <<"org_filters", "device_filters">>

\* Python orders strings by code point.
CodePoint(c) ==
    CASE c = Quote -> 39
      [] c = ";" -> 59
      [] c = "a" -> 97
      [] c = "b" -> 98

RECURSIVE StrLess(_, _)
StrLess(a, b) ==
    IF a = <<>> THEN b # <<>>
    ELSE IF b = <<>> THEN FALSE
    ELSE IF Head(a) = Head(b) THEN StrLess(Tail(a), Tail(b))
    ELSE CodePoint(Head(a)) < CodePoint(Head(b))

RECURSIVE Sorted(_)
\* sorted(set)
Sorted(S) ==
    IF S = {} THEN <<>>
    ELSE LET least == CHOOSE x \in S : \A y \in S \ {x} : StrLess(x, y)
         IN  <<least>> \o Sorted(S \ {least})

\* "if r[i]": None and the empty string are falsy.
Truthy(v) == v # None /\ v # <<>>

\* sorted(set(r[i] for r in rows if r[i]))
UniqueSorted(rows, i) ==
    Sorted({rows[k][i] : k \in {j \in 1..Len(rows) : Truthy(rows[j][i])}})

ColumnIndex(name, f) ==
    CHOOSE i \in 1..Len(Columns(name)) : Columns(name)[i] = f

\* The dict get_filter_options builds from the rows of its two queries.
filter_options(results_org, results_device) ==
    [f \in Fields |->
        IF \E i \in 1..Len(Columns("org_filters")) : Columns("org_filters")[i] = f
        THEN UniqueSorted(results_org, ColumnIndex("org_filters", f))
        ELSE UniqueSorted(results_device, ColumnIndex("device_filters", f))]

\* The cache of get_filter_options holds no entry or one, the function
\* having no arguments; age is the time since the entry was stored.
NoEntry == <<>>
Entry(value) == <<[value |-> value, age |-> 0]>>

Expired_never(entry) == FALSE

\* An entry is dropped once ttl seconds have passed.
Expired(entry) == entry.age >= ttl

\* found: the age of the entry the lookup met, NotFound when it met none.
NotFound == -1

IdleOptionCall ==
    [pc |-> "none", results |-> <<>>, ret |-> None, hit |-> FALSE, queries |-> 0,
     found |-> NotFound]

\* The call finds a live entry: its value is returned and the body does not
\* run.
OptionsHit(s) ==
    /\ optionCall[s].pc = "lookup"
    /\ optionCache # NoEntry
    /\ ~Expired(optionCache[1])
    /\ optionCall' = [optionCall EXCEPT ![s].ret = optionCache[1].value,
                                        ![s].hit = TRUE,
                                        ![s].found = optionCache[1].age,
                                        ![s].pc = "return"]
    /\ UNCHANGED <<predVars, execVars, resultCache, fetch, session, hist,
                   optionCache, activeTab>>

\* No entry, or an expired one: the body runs and issues its first query.
OptionsMiss(s) ==
    /\ optionCall[s].pc = "lookup"
    /\ IF optionCache = NoEntry THEN TRUE ELSE Expired(optionCache[1])
    /\ optionCall' = [optionCall EXCEPT
            ![s].pc = "query", ![s].queries = 1,
            ![s].found = IF optionCache = NoEntry THEN NotFound ELSE optionCache[1].age]
    /\ EnterExecute(s, [name |-> OptionQueries[1], where |-> <<>>])
    /\ optionCache' = NoEntry
    /\ UNCHANGED <<predVars, storeData, connCache, connBroken, resultCache, fetch,
                   session, hist, activeTab>>

\* The organization query returned rows: the device query is issued.
OptionsQueryReturns(s) ==
    /\ optionCall[s].pc = "query"
    /\ frame[s].pc = "done"
    /\ frame[s].result.kind = "rows"
    /\ Len(optionCall[s].results) + 1 < Len(OptionQueries)
    /\ optionCall' = [optionCall EXCEPT ![s].results = Append(@, frame[s].result.rows),
                                        ![s].queries = Inc(@)]
    /\ EnterExecute(s, [name |-> OptionQueries[Len(optionCall[s].results) + 2],
                        where |-> <<>>])
    /\ UNCHANGED <<predVars, storeData, connCache, connBroken, resultCache, fetch,
                   session, hist, optionCache, activeTab>>

\* The device query returned rows: the dict is built, returned and cached.
OptionsLastQueryReturns(s) ==
    /\ optionCall[s].pc = "query"
    /\ frame[s].pc = "done"
    /\ frame[s].result.kind = "rows"
    /\ Len(optionCall[s].results) + 1 = Len(OptionQueries)
    /\ LET value == filter_options(optionCall[s].results[1], frame[s].result.rows)
       IN  /\ optionCall' = [optionCall EXCEPT
                    ![s].results = Append(@, frame[s].result.rows),
                    ![s].ret = value, ![s].pc = "return"]
           /\ optionCache' = Entry(value)
    /\ frame' = [frame EXCEPT ![s] = IdleFrame]
    /\ tally' = [tally EXCEPT ![s] = ZeroTally]
    /\ UNCHANGED <<predVars, storeData, connCache, connBroken, resultCache, fetch,
                   session, hist, activeTab>>

\* execute_sql_query raised: the except clause prints the error and returns
\* None, which st.cache_data caches like any return value.
OptionsQueryRaises(s) ==
    /\ optionCall[s].pc = "query"
    /\ frame[s].pc = "done"
    /\ frame[s].result.kind = "error"
    /\ optionCall' = [optionCall EXCEPT ![s].ret = None, ![s].pc = "return"]
    /\ optionCache' = Entry(None)
    /\ frame' = [frame EXCEPT ![s] = IdleFrame]
    /\ tally' = [tally EXCEPT ![s] = ZeroTally]
    /\ UNCHANGED <<predVars, storeData, connCache, connBroken, resultCache, fetch,
                   session, hist, activeTab>>

\* Time passes.  A script run takes seconds and the expiry an hour, so the
\* model lets the clock step only while no script is running.
TimePasses ==
    /\ \A s \in Sessions :
            frame[s].pc = "idle" /\ fetch[s].pc = "none" /\ optionCall[s].pc = "none"
    /\ optionCache # NoEntry
    /\ optionCache[1].age < ttl
    /\ optionCache' =
            <<[optionCache[1] EXCEPT
                !.age = IF @ + TickSeconds < ttl THEN @ + TickSeconds ELSE ttl]>>
    /\ UNCHANGED <<predVars, execVars, resultCache, fetch, session, hist,
                   optionCall, activeTab>>

-----------------------------------------------------------------------------
(* The script of a session: one run per render *)

\* The FilterSelections the user of the modelled sessions picks.
SessionSelections == {AllUnset, SelVendor}

\* st.session_state.last_stats as first initialised
InitialStats ==
    [top_devices |-> EmptyDataFrame, subcategory |-> EmptyDataFrame,
     category |-> EmptyDataFrame, os_dist |-> EmptyDataFrame,
     vendor_dist |-> EmptyDataFrame, total_devices |-> 0,
     source_coverage |-> EmptyDataFrame, org_dist |-> EmptyDataFrame,
     risk_dist |-> EmptyDataFrame, risk_critical |-> EmptyDataFrame,
     risk_high |-> EmptyDataFrame, risk_medium |-> EmptyDataFrame,
     vuln_confirmed |-> EmptyDataFrame, vuln_potential |-> EmptyDataFrame,
     vuln_confirmed_total |-> 0, vuln_potential_total |-> 0]

\* st.session_state.last_filters = {}
NoFilters == [f \in {} |-> None]

Update_ignored(stats, bundle) == stats

\* dict.update
Update(stats, bundle) ==
    [k \in DOMAIN stats \cup DOMAIN bundle |->
        IF k \in DOMAIN bundle THEN bundle[k] ELSE stats[k]]

FallbackOptions_lastKnown == [f \in Fields \ {"account_status"} |-> <<<<"a">>>>]

\* The dict used when get_filter_options returned None: an empty list for
\* each of its keys, account_status not among them.
FallbackOptions == [f \in Fields \ {"account_status"} |-> <<>>]

\* options=[None] + filter_options.get(field, [])
Offered(options, f) ==
    {None} \cup (IF f \in DOMAIN options
                 THEN {options[f][i] : i \in 1..Len(options[f])}
                 ELSE {})

\* The values the select boxes hold in a run: a value the box does not
\* offer falls back to the first option, None.
Selected(options, picked) ==
    [f \in Fields |-> IF picked[f] \in Offered(options, f) THEN picked[f] ELSE None]

\* The tabs of st.tabs; NoTabs when the page shows none.
Tabs == <<"Global", "Risk", "Vulnerabilities">>
NoTabs == "none"

\* The session state as the first run of the script initialises it, with the
\* form at its defaults and no run in progress; first: the run in progress,
\* or the last one, is the session's first; after_halt: the run before it
\* ended in st.stop().
InitialSession ==
    [pc |-> "idle", started |-> FALSE, first |-> FALSE, after_halt |-> FALSE,
     widgets |-> AllUnset,
     submitted |-> FALSE, should_query |-> FALSE,
     filter_options |-> FallbackOptions, filter_error |-> FALSE,
     last_stats |-> InitialStats, last_filters |-> NoFilters,
     initial_load_done |-> FALSE, vuln_needs_refresh |-> TRUE,
     notice |-> "none"]

data_loaded_always(stats) == TRUE

\* data_loaded = not df_top.empty or not df_sub.empty or not df_cat.empty
data_loaded(stats) ==
    \/ ~IsEmpty(stats["top_devices"])
    \/ ~IsEmpty(stats["subcategory"])
    \/ ~IsEmpty(stats["category"])

\* The script from "stats = st.session_state.last_stats" up to its end or up
\* to the call of get_vulnerability_stats in the Vulnerabilities tab.  The
\* two branches that call st.stop() end the run; the "adjust filters" branch
\* and the loaded one go on to st.tabs.
AfterQueryBlock(ss) ==
    IF ~data_loaded(ss.last_stats)
    THEN IF ~ss.should_query /\ ~IsEmpty(ss.last_stats["top_devices"])
         THEN [ss EXCEPT !.notice = "adjust_filters",
                         !.pc = IF ss.vuln_needs_refresh THEN "vuln" ELSE "idle"]
         ELSE IF ss.should_query
         THEN [ss EXCEPT !.notice = "no_data", !.pc = "idle"]
         ELSE [ss EXCEPT !.notice = "select_filters", !.pc = "idle"]
    ELSE IF ss.vuln_needs_refresh
         THEN [ss EXCEPT !.notice = "loaded", !.pc = "vuln"]
         ELSE [ss EXCEPT !.notice = "loaded", !.pc = "idle"]

\* The tab the browser shows once the script is past st.tabs: tabs that were
\* on the page keep their active tab, new ones show the first, and a run
\* that stops before st.tabs leaves none.
TabShown(ss, tab) ==
    IF ss.notice \notin {"loaded", "adjust_filters"} THEN NoTabs
    ELSE IF tab = NoTabs THEN Tabs[1]
    ELSE tab

\* What a run that ends leaves in the record of the session's applies: the
\* selection applied and the bundles stored at the end of the run; whether
\* this apply repeats the selection of the one before with the store
\* unchanged since; and whether the bundles stored are those the apply
\* before had stored.
EndOfRun(h, s, ss) ==
    IF ss.pc = "idle" /\ ss.submitted
    THEN [h EXCEPT !.apply[s] =
            [applied |-> TRUE, sel |-> ss.widgets, stats |-> ss.last_stats,
             storeSame |-> TRUE,
             repeated |-> @.applied /\ @.sel = ss.widgets /\ @.storeSame,
             sameStats |-> ss.last_stats = @.stats]]
    ELSE h

\* The script, once past the query block, runs to its end or calls
\* get_vulnerability_stats.
Continue(h, s, ss) ==
    LET after == AfterQueryBlock(ss)
    IN  /\ session' = [session EXCEPT ![s] = after]
        /\ fetch' = IF after.pc = "vuln" THEN EnterFetch(s, "vuln", ss.widgets)
                    ELSE [fetch EXCEPT ![s] = IdleFetch]
        /\ activeTab' = [activeTab EXCEPT ![s] = TabShown(after, @)]
        /\ hist' = EndOfRun(h, s, after)

\* A run of the script begins: the first render of the session, a click on
\* "Apply Filters & Refresh" with the selection picked in the form, or a
\* rerun without a submit, in which the form holds the values last
\* submitted.  The script first calls get_filter_options.
RunScript(s, submitted, picked) ==
    /\ session[s].pc = "idle"
    /\ session' = [session EXCEPT ![s].started = TRUE,
                                  ![s].first = ~session[s].started,
                                  ![s].after_halt =
                                        session[s].notice \in {"no_data", "select_filters"},
                                  ![s].widgets = IF submitted THEN picked ELSE @,
                                  ![s].submitted = submitted,
                                  ![s].should_query = FALSE,
                                  ![s].notice = "none",
                                  ![s].pc = "options"]
    /\ optionCall' = [optionCall EXCEPT ![s] = [IdleOptionCall EXCEPT !.pc = "lookup"]]
    /\ UNCHANGED <<predVars, execVars, resultCache, fetch, hist, optionCache, activeTab>>

FirstRender(s) ==
    /\ ~session[s].started
    /\ RunScript(s, FALSE, AllUnset)

Rerun(s) ==
    /\ session[s].started
    /\ RunScript(s, FALSE, AllUnset)

\* The user picks, in the form of the page the last run rendered, values the
\* select boxes offer, and submits.
ApplyFilters(s) ==
    /\ session[s].started
    /\ \E picked \in SessionSelections :
        /\ \A f \in Fields : picked[f] \in Offered(session[s].filter_options, f)
        /\ RunScript(s, TRUE, picked)

should_query_whenever_unset(submitted, initial_load_done, all_filters_all) ==
    submitted \/ all_filters_all

should_query_initial_only(submitted, initial_load_done, all_filters_all) ==
    ~initial_load_done /\ all_filters_all

\* should_query = submitted or (not initial_load_done and all_filters_all)
should_query(submitted, initial_load_done, all_filters_all) ==
    submitted \/ (~initial_load_done /\ all_filters_all)

\* The user submits the form as it is first shown, every box at "All".
ApplyDefaults(s) ==
    /\ session[s].started
    /\ RunScript(s, TRUE, AllUnset)

\* get_filter_options returned: the form is built from its result or from
\* the fallback dict, the session state is initialised where missing, and
\* should_query decides between the query block, which begins with the call
\* of get_global_stats, and the rest of the script.
OptionsReturn(s) ==
    /\ session[s].pc = "options"
    /\ optionCall[s].pc = "return"
    /\ LET filter_options_result == optionCall[s].ret
           options == IF filter_options_result = None THEN FallbackOptions
                      ELSE filter_options_result
           selected == Selected(options, session[s].widgets)
           all_filters_all == \A f \in Fields : selected[f] = None
           query == should_query(session[s].submitted,
                                 session[s].initial_load_done, all_filters_all)
           ss == [session[s] EXCEPT !.filter_options = options,
                                    !.filter_error = filter_options_result = None,
                                    !.widgets = selected,
                                    !.should_query = query]
           h == [hist EXCEPT
                    !.auto[s] = IF query /\ ~session[s].submitted THEN Inc(@) ELSE @]
       IN  IF query
           THEN /\ session' = [session EXCEPT ![s] =
                        [ss EXCEPT !.last_filters = selected,
                                   !.initial_load_done = TRUE,
                                   !.pc = "global"]]
                /\ fetch' = EnterFetch(s, "global", selected)
                /\ hist' = h
                /\ UNCHANGED activeTab
           ELSE Continue(h, s, ss)
    /\ optionCall' = [optionCall EXCEPT ![s] = IdleOptionCall]
    /\ UNCHANGED <<predVars, execVars, resultCache, optionCache>>

\* get_global_stats returned: last_stats.update(stats_global), then
\* get_risk_stats is called with the same selection.
GlobalReturns(s) ==
    /\ session[s].pc = "global"
    /\ fetch[s].pc = "return"
    /\ session' = [session EXCEPT ![s].last_stats = Update(@, fetch[s].ret),
                                  ![s].pc = "risk"]
    /\ fetch' = EnterFetch(s, "risk", session[s].widgets)
    /\ UNCHANGED <<predVars, execVars, resultCache, hist, optVars, activeTab>>

\* get_risk_stats returned: last_stats.update(stats_risk),
\* vuln_needs_refresh = True, and the script goes on past the query block.
RiskReturns(s) ==
    /\ session[s].pc = "risk"
    /\ fetch[s].pc = "return"
    /\ Continue(hist, s, [session[s] EXCEPT !.last_stats = Update(@, fetch[s].ret),
                                            !.vuln_needs_refresh = TRUE])
    /\ UNCHANGED <<predVars, execVars, resultCache, optVars>>

\* get_vulnerability_stats returned in the Vulnerabilities tab:
\* last_stats.update(stats_vuln), vuln_needs_refresh = False; the run ends.
VulnReturns(s) ==
    /\ session[s].pc = "vuln"
    /\ fetch[s].pc = "return"
    /\ LET ss == [session[s] EXCEPT !.last_stats = Update(@, fetch[s].ret),
                                    !.vuln_needs_refresh = FALSE,
                                    !.pc = "idle"]
       IN  /\ session' = [session EXCEPT ![s] = ss]
           /\ hist' = EndOfRun(hist, s, ss)
    /\ fetch' = [fetch EXCEPT ![s] = IdleFetch]
    /\ UNCHANGED <<predVars, execVars, resultCache, optVars, activeTab>>

\* The user clicks another tab: the browser shows it; the script does not
\* run.
SelectTab(s) ==
    /\ session[s].pc = "idle"
    /\ activeTab[s] # NoTabs
    /\ \E i \in 1..Len(Tabs) :
        /\ Tabs[i] # activeTab[s]
        /\ activeTab' = [activeTab EXCEPT ![s] = Tabs[i]]
    /\ UNCHANGED <<predVars, execVars, resultCache, fetch, session, hist, optVars>>

NoApply ==
    [applied |-> FALSE, sel |-> AllUnset, stats |-> InitialStats, storeSame |-> FALSE,
     repeated |-> FALSE, sameStats |-> FALSE]

\* hist.auto: the query cycles run without an apply action; hist.expired:
\* the one expiry of the two callers' specification has happened.
InitSess ==
    /\ resultCache = [k \in {} |-> InitialStats]
    /\ fetch = [s \in Sessions |-> IdleFetch]
    /\ session = [s \in Sessions |-> InitialSession]
    /\ hist = [runs |-> [k \in {} |-> 0], first |-> [k \in {} |-> InitialStats],
               apply |-> [s \in Sessions |-> NoApply],
               auto |-> [s \in Sessions |-> 0],
               expired |-> FALSE]
    /\ optionCache = NoEntry
    /\ optionCall = [s \in Sessions |-> IdleOptionCall]
    /\ activeTab = [s \in Sessions |-> NoTabs]

-----------------------------------------------------------------------------
(* Specification of the query executor alone: one caller issues calls of    *)
(* execute_sql_query one after another.                                     *)

ExecQueries ==
    {[name |-> "total_devices", where |-> WhereOf(AllUnset)],
     [name |-> "top_devices", where |-> WhereOf(AllUnset)],
     [name |-> "top_devices", where |-> WhereOf(SelVendor)]}

CallExecute(c) ==
    /\ frame[c].pc = "idle"
    /\ \E q \in ExecQueries : EnterExecute(c, q)
    /\ UNCHANGED <<storeData, connCache, connBroken, predVars, sessVars>>

\* The caller has received the rows or the exception.
ExecuteReturns(c) ==
    /\ frame[c].pc = "done"
    /\ frame' = [frame EXCEPT ![c] = IdleFrame]
    /\ tally' = [tally EXCEPT ![c] = ZeroTally]
    /\ UNCHANGED <<storeData, connCache, connBroken, predVars, sessVars>>

\* No call of build_where_clause is observed on its own; every session is
\* new, the caches are empty and no call is in progress.
Init ==
    /\ args = AllUnset
    /\ where_clause = NotCalled
    /\ vuln_results = <<>>
    /\ vuln_bundle = <<>>
    /\ alias = DefaultAlias
    /\ aliased_clause = NotCalled
    /\ InitExec
    /\ InitSess

NextExec ==
    \/ CallExecute(1)
    \/ GetConnectionCached(1)
    \/ GetConnectionCreate(1)
    \/ GetConnectionFails(1)
    \/ OpenCursor(1)
    \/ OpenCursorFails(1)
    \/ ExecuteQuery(1)
    \/ ExecuteQueryFails(1)
    \/ Fetchall(1)
    \/ FetchallFails(1)
    \/ ExceptClause(1)
    \/ FinallyClause(1)
    \/ ExecuteReturns(1)
    \/ ConnectionBreaks
    \/ StoreChanges

SpecExec == Init /\ [][NextExec]_vars

-----------------------------------------------------------------------------
(* Specification of two callers of execute_sql_query on the one cached      *)
(* connection, their statements interleaved in every way, over a store that *)
(* answers every query: the only fault is that, once, the connection in     *)
(* the cache stops working.                                                 *)

\* The cached connection expires; it happens once.
ConnectionExpires ==
    /\ ~hist.expired
    /\ connCache # NoConnection
    /\ connBroken' = connBroken \cup {connCache}
    /\ hist' = [hist EXCEPT !.expired = TRUE]
    /\ UNCHANGED <<storeData, connCache, frame, tally>>
    /\ UNCHANGED <<predVars, resultCache, fetch, session, optVars, activeTab>>

\* cursor.execute(query) raises on a handle that no longer works.
ExecuteOnLostConnection(c) ==
    /\ frame[c].connection \in connBroken
    /\ ExecuteQueryFails(c)

\* cursor.fetchall() raises on a handle that no longer works.
FetchallOnLostConnection(c) ==
    /\ frame[c].connection \in connBroken
    /\ FetchallFails(c)

NextRace ==
    \/ CallExecute(1)
    \/ CallExecute(2)
    \/ GetConnectionCached(1)
    \/ GetConnectionCached(2)
    \/ GetConnectionCreate(1)
    \/ GetConnectionCreate(2)
    \/ OpenCursor(1)
    \/ OpenCursor(2)
    \/ OpenCursorFails(1)
    \/ OpenCursorFails(2)
    \/ ExecuteQuery(1)
    \/ ExecuteQuery(2)
    \/ ExecuteOnLostConnection(1)
    \/ ExecuteOnLostConnection(2)
    \/ Fetchall(1)
    \/ Fetchall(2)
    \/ FetchallOnLostConnection(1)
    \/ FetchallOnLostConnection(2)
    \/ ExceptClause(1)
    \/ ExceptClause(2)
    \/ FinallyClause(1)
    \/ FinallyClause(2)
    \/ ExecuteReturns(1)
    \/ ExecuteReturns(2)
    \/ ConnectionExpires

SpecRace == Init /\ [][NextRace]_vars

-----------------------------------------------------------------------------
(* Specification of the predicate builder alone: one call on any           *)
(* FilterSelection of the bounded input space.                             *)

\* A FilterSelection with the fields of S set as g says and the others unset.
Selection(S, g) == [f \in Fields |-> IF f \in S THEN g[f] ELSE None]

\* The inputs: at most MaxSetFields fields set, each to any value; or any
\* subset of the twelve fields set (all twelve included), every set field
\* holding the same one-character value.
InitPred ==
    /\ \/ \E S \in {T \in SUBSET Fields : Cardinality(T) <= MaxSetFields} :
            \E g \in [S -> FilterValues] : args = Selection(S, g)
       \/ \E S \in SUBSET Fields : \E c \in Alphabet :
            args = Selection(S, [f \in S |-> <<c>>])
    /\ where_clause = NotCalled
    /\ vuln_results = <<>>
    /\ vuln_bundle = <<>>
    /\ alias = DefaultAlias
    /\ aliased_clause = NotCalled
    /\ InitExec
    /\ InitSess

CallBuildWhereClause ==
    /\ where_clause = NotCalled
    /\ where_clause' = WhereOf(args)
    /\ UNCHANGED <<args, vulnVars, aliasVars, execVars, sessVars>>

NextPred == CallBuildWhereClause

SpecPred == InitPred /\ [][NextPred]_vars

-----------------------------------------------------------------------------
(* Specification of the two predicate builders side by side: one call of    *)
(* each on the same FilterSelection, with any alias of the bounded set.     *)

\* The aliases tried: the default, a longer one, and one of a character
\* that filter values hold too.
Aliases == {DefaultAlias, <<"t", "1">>, <<"a">>}

\* The inputs: one field set to any value; or any subset of the twelve
\* fields set, every set field holding the same one-character value.
InitAlias ==
    /\ \/ \E f \in Fields : \E v \in FilterValues : args = Selection({f}, [g \in {f} |-> v])
       \/ \E S \in SUBSET Fields : \E c \in Alphabet :
            args = Selection(S, [f \in S |-> <<c>>])
    /\ where_clause = NotCalled
    /\ vuln_results = <<>>
    /\ vuln_bundle = <<>>
    /\ alias \in Aliases
    /\ aliased_clause = NotCalled
    /\ InitExec
    /\ InitSess

CallBuildWhereClauseWithAlias ==
    /\ aliased_clause = NotCalled
    /\ aliased_clause' = AliasedWhereOf(args, alias)
    /\ where_clause' = WhereOf(args)
    /\ UNCHANGED <<args, alias, vulnVars, execVars, sessVars>>

NextAlias == CallBuildWhereClauseWithAlias

SpecAlias == InitAlias /\ [][NextAlias]_vars

-----------------------------------------------------------------------------
(* Specification of the split of a vulnerability result alone: the part of  *)
(* get_vulnerability_stats after its query, on any result of the bounded    *)
(* input space.                                                             *)

\* The count of the i-th of n rows of one relevance, highest first as the
\* query's ORDER BY lists them: all different, or equal two by two.
CountAt(n, i, ties) == IF ties THEN 1 + ((n - i) \div 2) ELSE n + 1 - i

\* A result of the vulnerability query, in the order of its ORDER BY:
\* rows of NULL relevance, then the Confirmed ones, then the Potentially
\* Relevant ones; within a relevance, highest count first.
VulnRows(nNull, nConfirmed, nPotential, ties) ==
    [i \in 1..nNull |-> <<None, i, "s", CountAt(nNull, i, ties)>>]
    \o [i \in 1..nConfirmed |->
            <<"Confirmed", i, "s", CountAt(nConfirmed, i, ties)>>]
    \o [i \in 1..nPotential |->
            <<"Potentially Relevant", i, "s", CountAt(nPotential, i, ties)>>]

InitVuln ==
    /\ args = AllUnset
    /\ where_clause = NotCalled
    /\ \E nNull \in {0, 1}, nConfirmed \in 0..MaxBucketRows,
          nPotential \in {0, 1, MaxBucketRows}, ties \in BOOLEAN :
            vuln_results = VulnRows(nNull, nConfirmed, nPotential, ties)
    /\ vuln_bundle = <<>>
    /\ alias = DefaultAlias
    /\ aliased_clause = NotCalled
    /\ InitExec
    /\ InitSess

\* get_vulnerability_stats from "df_all = pd.DataFrame(results, ...)" to its
\* return.
SplitVulnResult ==
    /\ vuln_bundle = <<>>
    /\ vuln_bundle' = <<SuccessBundle("vuln", <<vuln_results>>)>>
    /\ UNCHANGED <<args, where_clause, vuln_results, aliasVars, execVars, sessVars>>

NextVuln == SplitVulnResult

SpecVuln == InitVuln /\ [][NextVuln]_vars

-----------------------------------------------------------------------------
(* Specification of one session of the dashboard: its renders, the fetches  *)
(* they make, and every execute_sql_query call of those fetches, over a     *)
(* store that changes and connections that fail.                            *)

Next ==
    \/ FirstRender(1)
    \/ Rerun(1)
    \/ ApplyFilters(1)
    \/ OptionsHit(1)
    \/ OptionsMiss(1)
    \/ OptionsQueryReturns(1)
    \/ OptionsLastQueryReturns(1)
    \/ OptionsQueryRaises(1)
    \/ OptionsReturn(1)
    \/ GlobalReturns(1)
    \/ RiskReturns(1)
    \/ VulnReturns(1)
    \/ CacheHit(1)
    \/ CacheMiss(1)
    \/ QueryReturns(1)
    \/ LastQueryReturns(1)
    \/ QueryRaises(1)
    \/ GetConnectionCached(1)
    \/ GetConnectionCreate(1)
    \/ GetConnectionFails(1)
    \/ OpenCursor(1)
    \/ OpenCursorFails(1)
    \/ ExecuteQuery(1)
    \/ ExecuteQueryFails(1)
    \/ Fetchall(1)
    \/ FetchallFails(1)
    \/ ExceptClause(1)
    \/ FinallyClause(1)
    \/ ConnectionBreaks
    \/ StoreChanges

Spec == Init /\ [][Next]_vars

-----------------------------------------------------------------------------
(* Specification of one session over the hours: it renders and applies     *)
(* with the form left at its defaults while the clock advances past the     *)
(* expiry of the filter options, the store changes and connections fail.    *)

NextTtl ==
    \/ FirstRender(1)
    \/ Rerun(1)
    \/ ApplyDefaults(1)
    \/ OptionsHit(1)
    \/ OptionsMiss(1)
    \/ OptionsQueryReturns(1)
    \/ OptionsLastQueryReturns(1)
    \/ OptionsQueryRaises(1)
    \/ OptionsReturn(1)
    \/ GlobalReturns(1)
    \/ RiskReturns(1)
    \/ VulnReturns(1)
    \/ CacheHit(1)
    \/ CacheMiss(1)
    \/ QueryReturns(1)
    \/ LastQueryReturns(1)
    \/ QueryRaises(1)
    \/ GetConnectionCached(1)
    \/ GetConnectionCreate(1)
    \/ GetConnectionFails(1)
    \/ OpenCursor(1)
    \/ OpenCursorFails(1)
    \/ ExecuteQuery(1)
    \/ ExecuteQueryFails(1)
    \/ Fetchall(1)
    \/ FetchallFails(1)
    \/ ExceptClause(1)
    \/ FinallyClause(1)
    \/ ConnectionBreaks
    \/ StoreChanges
    \/ TimePasses

SpecTtl == Init /\ [][NextTtl]_vars

-----------------------------------------------------------------------------
(* Specification of one session and the tabs its user looks at, over a      *)
(* store that keeps its contents.                                           *)

NextView ==
    \/ FirstRender(1)
    \/ Rerun(1)
    \/ ApplyFilters(1)
    \/ SelectTab(1)
    \/ OptionsHit(1)
    \/ OptionsMiss(1)
    \/ OptionsQueryReturns(1)
    \/ OptionsLastQueryReturns(1)
    \/ OptionsQueryRaises(1)
    \/ OptionsReturn(1)
    \/ GlobalReturns(1)
    \/ RiskReturns(1)
    \/ VulnReturns(1)
    \/ CacheHit(1)
    \/ CacheMiss(1)
    \/ QueryReturns(1)
    \/ LastQueryReturns(1)
    \/ QueryRaises(1)
    \/ GetConnectionCached(1)
    \/ GetConnectionCreate(1)
    \/ GetConnectionFails(1)
    \/ OpenCursor(1)
    \/ OpenCursorFails(1)
    \/ ExecuteQuery(1)
    \/ ExecuteQueryFails(1)
    \/ Fetchall(1)
    \/ FetchallFails(1)
    \/ ExceptClause(1)
    \/ FinallyClause(1)
    \/ ConnectionBreaks

SpecView == Init /\ [][NextView]_vars

-----------------------------------------------------------------------------
(* Specification of two sessions in one process: each renders and then      *)
(* applies at most once, the runs of their scripts taking turns, over one   *)
(* connection cache, one result cache, one option cache and a store that    *)
(* keeps its contents.                                                      *)

\* No other session's script is running.
InTurn(s) == \A o \in Sessions \ {s} : session[o].pc = "idle"

\* A browser opens the dashboard: the first run of its session.
FirstRenderInTurn(s) ==
    /\ InTurn(s)
    /\ FirstRender(s)

\* The user applies a selection in the page of the session's first render.
ApplyOnce(s) ==
    /\ InTurn(s)
    /\ session[s].first
    /\ ApplyFilters(s)

NextShared ==
    \/ FirstRenderInTurn(1)
    \/ FirstRenderInTurn(2)
    \/ ApplyOnce(1)
    \/ ApplyOnce(2)
    \/ OptionsHit(1)
    \/ OptionsHit(2)
    \/ OptionsMiss(1)
    \/ OptionsMiss(2)
    \/ OptionsQueryReturns(1)
    \/ OptionsQueryReturns(2)
    \/ OptionsLastQueryReturns(1)
    \/ OptionsLastQueryReturns(2)
    \/ OptionsQueryRaises(1)
    \/ OptionsQueryRaises(2)
    \/ OptionsReturn(1)
    \/ OptionsReturn(2)
    \/ GlobalReturns(1)
    \/ GlobalReturns(2)
    \/ RiskReturns(1)
    \/ RiskReturns(2)
    \/ VulnReturns(1)
    \/ VulnReturns(2)
    \/ CacheHit(1)
    \/ CacheHit(2)
    \/ CacheMiss(1)
    \/ CacheMiss(2)
    \/ QueryReturns(1)
    \/ QueryReturns(2)
    \/ LastQueryReturns(1)
    \/ LastQueryReturns(2)
    \/ QueryRaises(1)
    \/ QueryRaises(2)
    \/ GetConnectionCached(1)
    \/ GetConnectionCached(2)
    \/ GetConnectionCreate(1)
    \/ GetConnectionCreate(2)
    \/ GetConnectionFails(1)
    \/ GetConnectionFails(2)
    \/ OpenCursor(1)
    \/ OpenCursor(2)
    \/ ExecuteQuery(1)
    \/ ExecuteQuery(2)
    \/ ExecuteQueryFails(1)
    \/ ExecuteQueryFails(2)
    \/ Fetchall(1)
    \/ Fetchall(2)
    \/ FetchallFails(1)
    \/ FetchallFails(2)
    \/ ExceptClause(1)
    \/ ExceptClause(2)
    \/ FinallyClause(1)
    \/ FinallyClause(2)

SpecShared == Init /\ [][NextShared]_vars

-----------------------------------------------------------------------------
(* Reading a predicate back the way the store's SQL lexer does: a quote     *)
(* opens a string literal; inside a literal two adjacent quotes stand for   *)
(* one quote character and a single quote closes the literal.               *)

\* One character of the scan.  mode is "out" (outside a literal), "in"
\* (inside one) or "pend" (inside one, just after a quote that is either the
\* first of a doubled pair or the closing quote).
LexStep(st, c) ==
    CASE st.mode = "out" /\ c = Quote ->
            [st EXCEPT !.mode = "in", !.cur = <<>>]
      [] st.mode = "out" /\ c # Quote ->
            [st EXCEPT !.skel = Append(@, c)]
      [] st.mode = "in" /\ c = Quote ->
            [st EXCEPT !.mode = "pend"]
      [] st.mode = "in" /\ c # Quote ->
            [st EXCEPT !.cur = Append(@, c)]
      [] st.mode = "pend" /\ c = Quote ->
            [st EXCEPT !.mode = "in", !.cur = Append(@, Quote)]
      [] st.mode = "pend" /\ c # Quote ->
            [mode |-> "out", cur |-> <<>>, lits |-> Append(st.lits, st.cur),
             skel |-> st.skel \o <<"?", c>>]

RECURSIVE LexRange(_, _, _, _)
\* The scan of s[lo..hi] from state st (split in halves to keep the
\* evaluation shallow).
LexRange(s, st, lo, hi) ==
    IF lo > hi THEN st
    ELSE IF lo = hi THEN LexStep(st, s[lo])
    ELSE LET mid == (lo + hi) \div 2
             left == LexRange(s, st, lo, mid)
         IN  \* the test makes TLC evaluate the left half before the right one
             IF left.mode \in {"out", "in", "pend"}
             THEN LexRange(s, left, mid + 1, hi)
             ELSE left

\* closed: the text does not end inside a literal; literals: the decoded
\* contents of the literals, in order; skeleton: the text with every literal
\* replaced by "?".
Lex(s) ==
    LET st == LexRange(s, [mode |-> "out", cur |-> <<>>, lits |-> <<>>,
                           skel |-> <<>>], 1, Len(s))
    IN  [closed |-> st.mode # "in",
         literals |-> IF st.mode = "pend" THEN Append(st.lits, st.cur) ELSE st.lits,
         skeleton |-> IF st.mode = "pend" THEN Append(st.skel, "?") ELSE st.skel]

QuoteCount(s) == Cardinality({i \in 1..Len(s) : s[i] = Quote})

\* The set fields of a FilterSelection, in parameter order, and their values.
SetFields(fs) == LET IsSet(f) == fs[f] # None IN SelectSeq(FieldOrder, IsSet)
SetValues(fs) == [i \in 1..Len(SetFields(fs)) |-> fs[SetFields(fs)[i]]]

RECURSIVE SumQuotes(_)
SumQuotes(vals) ==
    IF vals = <<>> THEN 0 ELSE QuoteCount(Head(vals)) + SumQuotes(Tail(vals))

Built == where_clause # NotCalled

\* C1: for every FilterSelection and every set field, the value is
\* interpolated with each single quote replaced by two: the predicate holds
\* two quotes per quote of a value plus the two delimiters of each literal,
\* and read back by the SQL literal rule it consists of closed literals that
\* decode to exactly the values of the set fields, so no value ends its
\* literal early.
C1_QuotesDoubledNoEarlyClose ==
    Built =>
        /\ Lex(where_clause).closed
        /\ Lex(where_clause).literals = SetValues(args)
        /\ QuoteCount(where_clause) =
                2 * Len(SetValues(args)) + 2 * SumQuotes(SetValues(args))

\* A value that starts with a quote followed by a semicolon (the shape of
\* '; DROP ...) was interpolated into the membership test.
C1_Witness ==
    /\ Built
    /\ args["mac_oui"] = <<Quote, ";">>
    /\ args["organization"] # None
    /\ Quote \in {args["organization"][i] : i \in 1..Len(args["organization"])}

\* C2: build_where_clause returns "1=1" exactly when all twelve fields are
\* unset.
C2_AlwaysTrueIffAllUnset ==
    Built => ((where_clause = <<"1", "=", "1">>) <=> (args = AllUnset))

C2_Witness ==
    /\ args = AllUnset
    /\ where_clause = <<"1", "=", "1">>

\* The column each field is compared on, as the claim lists them.
ColumnOf(f) ==
    CASE f = "region" -> <<"r","e","g","i","o","n">>
      [] f = "vertical" -> <<"v","e","r","t","i","c","a","l">>
      [] f = "organization" -> <<"o","r","g","a","n","i","z","a","t","i","o","n">>
      [] f = "industry" -> <<"i","n","d","u","s","t","r","y">>
      [] f = "account_status" -> <<"a","c","c","o","u","n","t","_","s","t","a","t","u","s">>
      [] f = "vendor" -> <<"v","e","n","d","o","r">>
      [] f = "device_category" -> <<"d","e","v","i","c","e","_","c","a","t","e","g","o","r","y">>
      [] f = "device_type_family" -> <<"d","e","v","i","c","e","_","t","y","p","e","_","f","a","m","i","l","y">>
      [] f = "device_subcategory" -> <<"d","e","v","i","c","e","_","s","u","b","c","a","t","e","g","o","r","y">>
      [] f = "model" -> <<"m","o","d","e","l">>
      [] f = "os_name" -> <<"o","s","_","n","a","m","e">>
      [] f = "mac_oui" -> <<"m","a","c","_","o","u","i","_","l","i","s","t">>

\* The conjunct expected for a field, with "?" for its string literal.
ExpectedConjunct(f) ==
    IF f = "mac_oui"
    THEN <<"a","r","r","a","y","_","c","o","n","t","a","i","n","s","(">>
            \o ColumnOf(f) \o <<",", " ", "?", ")">>
    ELSE ColumnOf(f) \o <<" ", "=", " ", "?">>

RECURSIVE ExpectedSkeleton(_)
ExpectedSkeleton(fs) ==
    IF fs = <<>> THEN <<>>
    ELSE IF Len(fs) = 1 THEN ExpectedConjunct(fs[1])
    ELSE ExpectedConjunct(fs[1]) \o <<" ", "A", "N", "D", " ">>
            \o ExpectedSkeleton(Tail(fs))

\* C3: the predicate is one conjunct per set field and none for an unset
\* one, column = '<value>' for a scalar field and
\* array_contains(mac_oui_list, '<value>') for mac_oui, joined by AND in the
\* parameter order, each literal decoding to the field's value.
C3_OneConjunctPerSetField ==
    (Built /\ args # AllUnset) =>
        /\ Lex(where_clause).skeleton = ExpectedSkeleton(SetFields(args))
        /\ Lex(where_clause).literals = SetValues(args)
        /\ Len(Lex(where_clause).literals) = Cardinality({f \in Fields : args[f] # None})

\* All twelve fields set: eleven equality conjuncts and the membership test.
C3_Witness ==
    /\ Built
    /\ \A f \in Fields : args[f] = <<Quote>>
    /\ Len(Lex(where_clause).literals) = 12

-----------------------------------------------------------------------------
(* Properties of execute_sql_query *)

Calling(c) == frame[c].pc # "idle"
Done(c) == frame[c].pc = "done"

\* C4: a call makes at most two attempts and at most one reset; the second
\* attempt exists only after a reset; a call ends with rows or with an error,
\* never with a bare return; it raises only from the second attempt, with
\* that attempt's error; a call that succeeds at once resets nothing.
C4_RetryExactlyOnce ==
    \A c \in Sessions : Calling(c) =>
        /\ frame[c].attempt \in {0, 1}
        /\ tally[c].resets <= 1
        /\ frame[c].attempt = 1 => tally[c].resets = 1
        /\ (frame[c].attempt = 0 /\ tally[c].resets = 1) =>
                (frame[c].pc = "finally" /\ frame[c].pending = "continue")
        /\ Done(c) => frame[c].result.kind \in {"rows", "error"}
        /\ (Done(c) /\ frame[c].result.kind = "error") =>
                (frame[c].attempt = 1 /\ frame[c].result.attempt = 1)
        /\ (Done(c) /\ frame[c].attempt = 0) =>
                (frame[c].result.kind = "rows" /\ tally[c].resets = 0)

\* Both attempts failed: the call raises after one reset.
C4_Witness ==
    /\ Done(1)
    /\ frame[1].result = [kind |-> "error", attempt |-> 1]
    /\ tally[1].resets = 1

\* C5: when the first attempt failed and the retry fetched rows, the call
\* returns those rows and nothing is raised; the cached connection was
\* cleared once and the retry created one new connection.
C5_TransientFailureOneReconnect ==
    \A c \in Sessions :
        (Done(c) /\ frame[c].attempt = 1 /\ frame[c].pending = "return") =>
            /\ frame[c].result = [kind |-> "rows", rows |-> tally[c].fetched]
            /\ tally[c].resets = 1
            /\ tally[c].created = 1

\* The retry returned a non-empty row set.
C5_Witness ==
    /\ Done(1)
    /\ frame[1].attempt = 1
    /\ frame[1].result.kind = "rows"
    /\ frame[1].result.rows # <<>>
    /\ tally[1].resets = 1

\* C6: at most one cursor of a call is open at a time, it is the one the
\* local variable cursor holds, and none is open when an attempt begins or
\* when the call has returned or raised.
C6_CursorAlwaysClosed ==
    \A c \in Sessions :
        /\ tally[c].open <= 1
        /\ tally[c].open = 1 => frame[c].cursor # NoCursor
        /\ frame[c].pc \in {"idle", "connect", "cursor", "done"} => tally[c].open = 0

\* Both attempts opened a cursor and the call has ended.
C6_Witness ==
    /\ Done(1)
    /\ tally[1].opened = 2
    /\ tally[1].open = 0

-----------------------------------------------------------------------------
(* Properties of the fetchers and of their cache *)

Returned(s) == fetch[s].pc = "return"

\* The body ran and one of its queries raised after the retry.
BodyFailed(s) ==
    /\ Returned(s)
    /\ ~fetch[s].hit
    /\ Len(fetch[s].results) < Len(QueryNames(fetch[s].fetcher))

\* The names a successful bundle of each fetcher holds: the tables and the
\* scalar counts.
TableKeys(f) ==
    CASE f = "global" -> {"top_devices", "subcategory", "category", "os_dist",
                          "vendor_dist", "source_coverage", "org_dist"}
      [] f = "risk" -> {"risk_dist", "risk_critical", "risk_high", "risk_medium"}
      [] f = "vuln" -> {"vuln_confirmed", "vuln_potential"}

CountKeys(f) ==
    CASE f = "global" -> {"total_devices"}
      [] f = "risk" -> {}
      [] f = "vuln" -> {"vuln_confirmed_total", "vuln_potential_total"}

\* C7: no fetcher raises to its caller; when one of its queries fails after
\* the retry, the fetcher signals the error and returns a bundle with every
\* key of a successful one (8 for Global, 4 for Risk, 4 for Vulnerability),
\* its tables empty and its counts zero.
C7_FetchersNeverRaise ==
    \A s \in Sessions :
        /\ fetch[s].pc # "raised"
        /\ BodyFailed(s) =>
            /\ fetch[s].signalled
            /\ DOMAIN fetch[s].ret =
                    TableKeys(fetch[s].fetcher) \cup CountKeys(fetch[s].fetcher)
            /\ Cardinality(DOMAIN fetch[s].ret) =
                    (IF fetch[s].fetcher = "global" THEN 8 ELSE 4)
            /\ \A k \in TableKeys(fetch[s].fetcher) : IsEmpty(fetch[s].ret[k])
            /\ \A k \in CountKeys(fetch[s].fetcher) : fetch[s].ret[k] = 0

\* The third query of get_risk_stats raised after two queries had returned.
C7_Witness ==
    /\ BodyFailed(1)
    /\ fetch[1].fetcher = "risk"
    /\ Len(fetch[1].results) = 2
    /\ fetch[1].signalled

\* The column schema declared for each table of a bundle.
DeclaredColumns(k) ==
    CASE k \in {"top_devices", "risk_critical", "risk_high", "risk_medium"} ->
            <<"vendor", "device_type_family", "model", "count">>
      [] k = "subcategory" -> <<"device_subcategory", "count">>
      [] k = "category" -> <<"device_category", "count">>
      [] k = "os_dist" -> <<"os_name", "count">>
      [] k = "vendor_dist" -> <<"vendor", "count">>
      [] k = "source_coverage" -> <<"source", "device_count">>
      [] k = "org_dist" -> <<"organization", "count">>
      [] k = "risk_dist" -> <<"risk_score", "count">>
      [] k \in {"vuln_confirmed", "vuln_potential"} ->
            <<"advisory_name", "source_name", "count">>

\* C8: every table of a returned bundle carries the columns declared for its
\* name, whether its query returned no rows or the fetch failed and the
\* fallback bundle is returned, and total_devices of a failed fetch is 0.
C8_TablesKeepSchema ==
    \A s \in Sessions : Returned(s) =>
        /\ \A k \in TableKeys(fetch[s].fetcher) :
                fetch[s].ret[k].columns = DeclaredColumns(k)
        /\ (BodyFailed(s) /\ fetch[s].fetcher = "global") =>
                fetch[s].ret["total_devices"] = 0

\* The part of C8 the code keeps: a bundle built from the rows of the store
\* has the declared columns also where a query returned no rows.
SuccessfulBodyKeepsSchema ==
    \A s \in Sessions :
        (Returned(s) /\ ~fetch[s].hit /\ ~fetch[s].signalled) =>
            \A k \in TableKeys(fetch[s].fetcher) :
                fetch[s].ret[k].columns = DeclaredColumns(k)

\* The key a fetch is for.
FetchKey(s) == <<fetch[s].fetcher, fetch[s].sel>>

\* C9: a fetch for a key fetched before is a cache hit that issues no query
\* and returns the value the first fetch of that key computed; the body of a
\* fetcher runs at most once per (fetcher, FilterSelection); every fetch
\* returns the value computed for its own fetcher and FilterSelection.
C9_CacheHitReturnsFirstValue ==
    /\ \A key \in DOMAIN hist.runs : hist.runs[key] <= 1
    /\ \A s \in Sessions :
        /\ (Returned(s) /\ fetch[s].hit) => fetch[s].queries = 0
        /\ Returned(s) =>
            /\ FetchKey(s) \in DOMAIN hist.first
            /\ fetch[s].ret = hist.first[FetchKey(s)]
        /\ (fetch[s].pc = "lookup" /\ FetchKey(s) \in DOMAIN hist.runs) =>
                CacheKey(fetch[s].fetcher, fetch[s].sel) \in DOMAIN resultCache

\* A second Vulnerability fetch for the vendor selection was served from the
\* cache while the store holds other data than the cached rows.
C9_Witness ==
    /\ Returned(1)
    /\ fetch[1].hit
    /\ fetch[1].fetcher = "vuln"
    /\ fetch[1].sel = SelVendor
    /\ fetch[1].ret["vuln_confirmed_total"] = 1
    /\ storeData = 0

\* C10: when a FilterSelection is applied twice in sequence with the store
\* unchanged in between, the Global, Risk and Vulnerability bundles stored in
\* the session state at the end of the second application are those stored at
\* the end of the first.
C10_ApplyTwiceSameBundles ==
    \A s \in Sessions :
        hist.apply[s].repeated => hist.apply[s].sameStats

\* The vendor selection was applied twice in a row on a populated store and
\* the run ended with the three bundles loaded.
C10_Witness ==
    /\ hist.apply[1].repeated
    /\ hist.apply[1].sel = SelVendor
    /\ session[1].pc = "idle"
    /\ session[1].notice = "loaded"
    /\ ~session[1].vuln_needs_refresh
    /\ hist.apply[1].stats["vuln_confirmed_total"] = 1
    /\ hist.apply[1].stats["total_devices"] = 1

-----------------------------------------------------------------------------
(* Properties of the filter-option lookup *)

\* The option lists of each dataset: the empty store has no values; the
\* populated one has the regions a and b and the vendor a'.
ExpectedOptions(data) ==
    [f \in Fields |->
        IF data = 0 THEN <<>>
        ELSE IF f = "region" THEN << <<"a">>, <<"b">> >>
        ELSE IF f = "vendor" THEN << <<"a", Quote>> >>
        ELSE <<>>]

\* C11: a call of get_filter_options made less than one hour after the call
\* that computed the entry returns the cached mapping and queries nothing;
\* a call that finds no entry, or one an hour old or older, queries the
\* store again and returns and caches the values the store holds then.
C11_OptionsCachedOneHour ==
    \A s \in Sessions : optionCall[s].pc = "return" =>
        /\ optionCall[s].hit <=> optionCall[s].found \in 0..(ttl - 1)
        /\ optionCall[s].hit =>
            /\ optionCall[s].queries = 0
            /\ optionCache # NoEntry
            /\ optionCache[1].value = optionCall[s].ret
            /\ optionCache[1].age = optionCall[s].found
        /\ ~optionCall[s].hit =>
            /\ optionCall[s].queries >= 1
            /\ optionCache = <<[value |-> optionCall[s].ret, age |-> 0]>>
            /\ optionCall[s].ret \in {None, ExpectedOptions(storeData)}

\* A call met an entry one hour old holding the lists of the empty store,
\* queried the populated store and returned its lists.
C11_Witness ==
    /\ optionCall[1].pc = "return"
    /\ ~optionCall[1].hit
    /\ optionCall[1].found = ttl
    /\ optionCall[1].queries = 2
    /\ session[1].filter_options = ExpectedOptions(0)
    /\ optionCall[1].ret = ExpectedOptions(1)

\* A call met an entry half an hour old and returned it, although the store
\* no longer holds those values.
C11_StaleWithinTheHour ==
    /\ optionCall[1].pc = "return"
    /\ optionCall[1].hit
    /\ optionCall[1].found \in 1..(ttl - 1)
    /\ optionCall[1].ret = ExpectedOptions(0)
    /\ storeData = 1

-----------------------------------------------------------------------------
(* Properties of the render script *)

\* C12: an aggregate cache entry, once created for a (fetcher,
\* FilterSelection) key, is present with the value first stored under that
\* key after any later fetches, failed queries, store changes and connection
\* resets of execute_sql_query.
C12_AggregateEntriesPersist ==
    \A key \in DOMAIN hist.first :
        /\ CacheKey(key[1], key[2]) \in DOMAIN resultCache
        /\ resultCache[CacheKey(key[1], key[2])] = hist.first[key]

\* The Global entry of the all-unset selection holds rows of the populated
\* store while a later call of execute_sql_query, made for another key on
\* the emptied store, has just cleared the cached connection.
C12_Witness ==
    /\ <<"global", AllUnset>> \in DOMAIN hist.first
    /\ ~IsEmpty(resultCache[CacheKey("global", AllUnset)]["top_devices"])
    /\ Cardinality(DOMAIN resultCache) >= 3
    /\ storeData = 0
    /\ frame[1].pc = "finally"
    /\ frame[1].pending = "continue"
    /\ tally[1].resets = 1
    /\ connCache = NoConnection
\* C13: the automatic load, a query cycle without an apply action, happens
\* exactly once per session: the first render, with every field unset, runs
\* it and no later render does; initial_load_done is true from that cycle
\* on, and a later render without an apply action issues no Global or Risk
\* fetch.
C13_AutomaticLoadOnce ==
    \A s \in Sessions :
        /\ hist.auto[s] <= 1
        /\ session[s].started =>
            \/ hist.auto[s] = 1
            \/ session[s].pc = "options" /\ ~session[s].submitted
        /\ hist.auto[s] = 1 <=> session[s].initial_load_done
        /\ (~session[s].submitted /\ session[s].pc \in {"global", "risk"}) =>
            /\ session[s].should_query
            /\ fetch[s].sel = AllUnset
            /\ ~hist.apply[s].applied
        /\ (~session[s].submitted /\ hist.apply[s].applied) =>
            fetch[s].fetcher \notin {"global", "risk"}

\* A render without an apply action, made with every field unset after an
\* apply of the all-unset selection, has ended without a query cycle.
C13_Witness ==
    /\ session[1].pc = "idle"
    /\ session[1].started
    /\ ~session[1].submitted
    /\ ~session[1].should_query
    /\ session[1].widgets = AllUnset
    /\ session[1].initial_load_done
    /\ hist.apply[1].applied
    /\ hist.auto[1] = 1
\* C14: a query cycle marks the Vulnerability bundle as needing refresh
\* and does not fetch it: get_vulnerability_stats is called only while the
\* browser shows the Vulnerabilities tab, in a run after the cycle.
C14_VulnFetchOnlyWhenViewed ==
    \A s \in Sessions :
        session[s].pc = "vuln" =>
            /\ activeTab[s] = "Vulnerabilities"
            /\ ~session[s].should_query

\* What the script does instead: every run executes the body of each tab, so
\* the Vulnerability fetch is made in the run of the query cycle itself,
\* whatever tab is shown, once per cycle that loaded data; when the run ends
\* the flag is false if and only if the views were rendered.
VulnFetchedInTheQueryCycle ==
    \A s \in Sessions :
        /\ session[s].pc = "vuln" =>
            /\ session[s].should_query
            /\ session[s].vuln_needs_refresh
            /\ activeTab[s] \in {Tabs[i] : i \in 1..Len(Tabs)}
        /\ (session[s].pc = "idle" /\ session[s].started) =>
            (session[s].vuln_needs_refresh <=> session[s].notice # "loaded")
\* The part of the stored stats that one fetcher's bundle fills.
Part(stats, f) == [k \in TableKeys(f) \cup CountKeys(f) |-> stats[k]]

\* The stored part of fetcher f is the bundle fetched for the selection fs.
StoredFor(s, f, fs) ==
    /\ <<f, fs>> \in DOMAIN hist.first
    /\ Part(session[s].last_stats, f) = hist.first[<<f, fs>>]

\* C15: in a query cycle get_global_stats is called first and get_risk_stats
\* second, with the same FilterSelection; the Risk fetch starts only when
\* the Global fetch has returned and its bundle is stored in the session
\* state; get_vulnerability_stats is not called before both have returned
\* and are stored.
C15_GlobalThenRisk ==
    \A s \in Sessions :
        /\ fetch[s].fetcher = "global" <=> session[s].pc = "global"
        /\ fetch[s].fetcher = "risk" <=> session[s].pc = "risk"
        /\ fetch[s].fetcher = "vuln" <=> session[s].pc = "vuln"
        /\ session[s].pc = "global" =>
            /\ session[s].should_query
            /\ fetch[s].sel = session[s].widgets
        /\ session[s].pc = "risk" =>
            /\ session[s].should_query
            /\ fetch[s].sel = session[s].widgets
            /\ StoredFor(s, "global", session[s].widgets)
        /\ session[s].pc = "vuln" =>
            /\ fetch[s].sel = session[s].widgets
            /\ StoredFor(s, "global", session[s].widgets)
            /\ StoredFor(s, "risk", session[s].widgets)

\* The second query of the Risk fetch of an applied vendor selection is in
\* progress; the Global bundle of that selection, with rows, is stored.
C15_Witness ==
    /\ session[1].pc = "risk"
    /\ session[1].submitted
    /\ session[1].widgets = SelVendor
    /\ fetch[1].pc = "query"
    /\ Len(fetch[1].results) = 1
    /\ ~IsEmpty(session[1].last_stats["top_devices"])
    /\ session[1].last_stats["total_devices"] = 1

\* C16: an apply action with a FilterSelection other than the last applied
\* one calls get_global_stats and get_risk_stats with the new selection,
\* records it in last_filters, stores the two bundles fetched for it and
\* leaves the query block with vuln_needs_refresh true.
C16_ApplyRefetchesAndRearms ==
    \A s \in Sessions : session[s].submitted =>
        /\ session[s].pc # "options" =>
            /\ session[s].should_query
            /\ session[s].last_filters = session[s].widgets
        /\ session[s].pc \in {"global", "risk"} =>
            fetch[s].sel = session[s].widgets
        /\ session[s].pc \in {"vuln", "idle"} =>
            /\ StoredFor(s, "global", session[s].widgets)
            /\ StoredFor(s, "risk", session[s].widgets)
        /\ session[s].pc = "vuln" => session[s].vuln_needs_refresh
        /\ (session[s].pc = "idle" /\ session[s].notice # "loaded") =>
            session[s].vuln_needs_refresh

\* With the all-unset selection applied and loaded, the vendor selection was
\* applied: its Global and Risk bundles are stored and the flag is true.
C16_Witness ==
    /\ session[1].pc = "vuln"
    /\ session[1].submitted
    /\ session[1].widgets = SelVendor
    /\ session[1].last_filters = SelVendor
    /\ session[1].vuln_needs_refresh
    /\ hist.apply[1].applied
    /\ hist.apply[1].sel = AllUnset
    /\ hist.apply[1].stats["total_devices"] = 2
    /\ session[1].last_stats["total_devices"] = 1

\* The three primary tables of the stored stats are all empty.
PrimaryTablesEmpty(stats) ==
    /\ IsEmpty(stats["top_devices"])
    /\ IsEmpty(stats["subcategory"])
    /\ IsEmpty(stats["category"])

\* C17: when the Global bundle fetched after an apply action has its three
\* primary tables empty, the run shows "no data for the selected filters"
\* and stops: no tab is rendered and get_vulnerability_stats is not called;
\* when one of the three tables has rows, the run does not stop there.
C17_EmptyResultHalts ==
    \A s \in Sessions :
        (session[s].submitted /\ session[s].pc \in {"vuln", "idle"}) =>
            IF PrimaryTablesEmpty(session[s].last_stats)
            THEN /\ session[s].pc = "idle"
                 /\ session[s].notice = "no_data"
                 /\ activeTab[s] = NoTabs
                 /\ session[s].vuln_needs_refresh
            ELSE /\ session[s].notice = "loaded"
                 /\ activeTab[s] # NoTabs

\* The vendor selection was applied on the emptied store: its queries
\* returned no rows and the run stopped at the notice.
C17_Witness ==
    /\ session[1].pc = "idle"
    /\ session[1].submitted
    /\ session[1].widgets = SelVendor
    /\ session[1].notice = "no_data"
    /\ storeData = 0
    /\ session[1].last_stats["top_devices"].columns # <<>>
    /\ hist.apply[1].stats = session[1].last_stats

\* The run in progress is past the form and in the query cycle of the
\* initial load.
InInitialLoad(s) ==
    /\ session[s].pc \notin {"idle", "options"}
    /\ session[s].should_query
    /\ ~session[s].submitted

\* C18: a run without an apply action, once the initial load is done, calls
\* neither get_global_stats nor get_risk_stats and leaves last_filters and
\* the stored Global and Risk bundles as they were; when vuln_needs_refresh
\* is false it does not call get_vulnerability_stats either and leaves the
\* stored Vulnerability bundle and the flag as they were.
C18_RenderWithoutApplyKeepsState ==
    [][\A s \in Sessions :
        (~session'[s].submitted /\ session[s].initial_load_done
            /\ ~InInitialLoad(s)) =>
            /\ fetch'[s].fetcher \notin {"global", "risk"}
            /\ session'[s].last_filters = session[s].last_filters
            /\ Part(session'[s].last_stats, "global") = Part(session[s].last_stats, "global")
            /\ Part(session'[s].last_stats, "risk") = Part(session[s].last_stats, "risk")
            /\ ~session[s].vuln_needs_refresh =>
                /\ fetch'[s].fetcher # "vuln"
                /\ ~session'[s].vuln_needs_refresh
                /\ Part(session'[s].last_stats, "vuln") = Part(session[s].last_stats, "vuln")]_vars

\* A run without an apply action has ended on the loaded page of an applied
\* vendor selection, with the Vulnerability bundle fetched before.
C18_Witness ==
    /\ session[1].pc = "idle"
    /\ session[1].started
    /\ ~session[1].submitted
    /\ ~session[1].should_query
    /\ session[1].initial_load_done
    /\ session[1].notice = "loaded"
    /\ ~session[1].vuln_needs_refresh
    /\ session[1].last_filters = SelVendor
    /\ session[1].last_stats["vuln_confirmed_total"] = 1

-----------------------------------------------------------------------------
(* Properties of the split of a vulnerability result *)

RECURSIVE CountSum(_, _, _, _)
\* The sum of column col over the rows lo..hi.
CountSum(rows, col, lo, hi) ==
    IF lo > hi THEN 0
    ELSE IF lo = hi THEN rows[lo][col]
    ELSE LET mid == (lo + hi) \div 2
         IN  CountSum(rows, col, lo, mid) + CountSum(rows, col, mid + 1, hi)

Buckets == {"Confirmed", "Potentially Relevant"}

\* The positions of the rows of one bucket in the result.
BucketRows(rows, bucket) == {i \in 1..Len(rows) : rows[i][1] = bucket}

RECURSIVE BucketSum(_, _)
BucketSum(rows, positions) ==
    IF positions = {} THEN 0
    ELSE LET i == CHOOSE p \in positions : \A q \in positions : p <= q
         IN  rows[i][4] + BucketSum(rows, positions \ {i})

\* C19: for every row set the vulnerability query returns,
\* vuln_confirmed_total + vuln_potential_total equals the sum of the count
\* column over all returned rows, and every returned row is in exactly one
\* of the buckets Confirmed and Potentially Relevant.
C19_PartitionLaw ==
    vuln_bundle # <<>> =>
        /\ vuln_bundle[1]["vuln_confirmed_total"] + vuln_bundle[1]["vuln_potential_total"]
                = CountSum(vuln_results, 4, 1, Len(vuln_results))
        /\ \A i \in 1..Len(vuln_results) :
                Cardinality({b \in Buckets : vuln_results[i][1] = b}) = 1

\* What the split keeps of the law: no row is in both buckets, each total is
\* the sum over its bucket, and the law holds of every result whose rows are
\* all Confirmed or Potentially Relevant.
PartitionLawOfClassifiedRows ==
    vuln_bundle # <<>> =>
        /\ BucketRows(vuln_results, "Confirmed")
                \cap BucketRows(vuln_results, "Potentially Relevant") = {}
        /\ (\A i \in 1..Len(vuln_results) : vuln_results[i][1] \in Buckets) =>
                vuln_bundle[1]["vuln_confirmed_total"] + vuln_bundle[1]["vuln_potential_total"]
                    = CountSum(vuln_results, 4, 1, Len(vuln_results))

\* The key of the displayed table and of the total of each bucket.
TableOf(bucket) == IF bucket = "Confirmed" THEN "vuln_confirmed" ELSE "vuln_potential"
TotalOf(bucket) ==
    IF bucket = "Confirmed" THEN "vuln_confirmed_total" ELSE "vuln_potential_total"

\* C20: each bucket's total is the sum of the counts of all rows of the
\* bucket, those not displayed included; each displayed table holds at most
\* 100 rows, all the bucket's rows when it has no more than 100, and no row
\* left out has a higher count than a displayed one; so each total is at
\* least the sum of the counts displayed.
C20_TotalsBeforeTruncation ==
    vuln_bundle # <<>> =>
        \A b \in Buckets :
            LET positions == BucketRows(vuln_results, b)
                shown == vuln_bundle[1][TableOf(b)].rows
                first == IF positions = {} THEN 0
                         ELSE CHOOSE p \in positions : \A q \in positions : p <= q
            IN  /\ vuln_bundle[1][TotalOf(b)] = BucketSum(vuln_results, positions)
                /\ Len(shown) <= 100
                /\ Len(shown) = IF Cardinality(positions) < 100
                                THEN Cardinality(positions) ELSE 100
                /\ \A k \in 1..Len(shown) :
                    /\ first + k - 1 \in positions
                    /\ shown[k] = <<vuln_results[first + k - 1][2],
                                    vuln_results[first + k - 1][3],
                                    vuln_results[first + k - 1][4]>>
                    /\ \A j \in positions :
                        j > first + Len(shown) - 1 => vuln_results[j][4] <= shown[k][3]
                /\ vuln_bundle[1][TotalOf(b)] >= CountSum(shown, 3, 1, Len(shown))

\* A result with more than 100 Confirmed rows was split: 100 are displayed
\* and the total counts the others too.
C20_Witness ==
    /\ vuln_bundle # <<>>
    /\ Cardinality(BucketRows(vuln_results, "Confirmed")) > 100
    /\ Len(vuln_bundle[1]["vuln_confirmed"].rows) = 100
    /\ vuln_bundle[1]["vuln_confirmed_total"] >
            CountSum(vuln_bundle[1]["vuln_confirmed"].rows, 3, 1, 100)
    /\ Len(vuln_bundle[1]["vuln_potential"].rows) = 1

-----------------------------------------------------------------------------
(* Properties of the fetchers' queries, of the fallback and of the render's *)
(* end                                                                      *)

\* The queries of a fetch in the order the dashboard lists them.
FixedOrder(f) ==
    CASE f = "global" ->
            <<"top_devices", "subcategory", "category", "os_dist", "vendor_dist",
              "total_devices", "source_coverage", "org_dist">>
      [] f = "risk" -> <<"risk_dist", "risk_critical", "risk_high", "risk_medium">>
      [] f = "vuln" -> <<"vuln">>

FixedCount(f) == IF f = "global" THEN 8 ELSE IF f = "risk" THEN 4 ELSE 1

\* C21: a fetch that meets no failure issues a fixed number of queries in a
\* fixed order, one after another: eight for Global, four for Risk, one for
\* Vulnerability; a query is issued only when all those before it have
\* returned, and every query of the fetch carries the predicate built from
\* the fetch's FilterSelection.
C21_FixedQueryOrder ==
    \A s \in Sessions :
        LET f == fetch[s].fetcher
            issued == fetch[s].issued
        IN  /\ fetch[s].pc = "query" =>
                /\ Len(issued) = Len(fetch[s].results) + 1
                /\ frame[s].pc # "idle" /\ frame[s].query = issued[Len(issued)]
            /\ fetch[s].pc \in {"query", "return"} =>
                /\ Len(issued) <= FixedCount(f)
                /\ \A k \in 1..Len(issued) :
                    /\ issued[k].name = FixedOrder(f)[k]
                    /\ issued[k].where = WhereOf(fetch[s].sel)
            /\ (Returned(s) /\ ~fetch[s].hit /\ ~fetch[s].signalled) =>
                /\ Len(issued) = FixedCount(f)
                /\ Len(fetch[s].results) = FixedCount(f)

\* A Global fetch for a selection with a field set has returned after all
\* its eight queries succeeded.
C21_Witness ==
    /\ Returned(1)
    /\ fetch[1].fetcher = "global"
    /\ fetch[1].sel = SelVendor
    /\ ~fetch[1].hit /\ ~fetch[1].signalled
    /\ Len(fetch[1].issued) = 8
    /\ fetch[1].issued[8].where # <<"1", "=", "1">>

\* C22: when the filter-option lookup has failed, the session does not fail:
\* every one of the twelve select boxes offers the unset choice only, the
\* run goes on past the form, and in the session's first run the automatic
\* load with every filter unset is still made.
C22_OptionsFailureOffersOnlyAll ==
    \A s \in Sessions :
        (session[s].filter_error /\ session[s].pc # "options") =>
            /\ \A f \in Fields : Offered(session[s].filter_options, f) = {None}
            /\ session[s].widgets = AllUnset
            /\ session[s].pc \in {"global", "risk", "vuln", "idle"}
            /\ session[s].first =>
                /\ session[s].should_query
                /\ session[s].initial_load_done
                /\ session[s].last_filters = AllUnset
                /\ session[s].pc = "global" =>
                        fetch[s].fetcher = "global" /\ fetch[s].sel = AllUnset

\* The first run of a session ended with the views rendered although its
\* option lookup had failed.
C22_Witness ==
    /\ session[1].first
    /\ session[1].filter_error
    /\ session[1].pc = "idle"
    /\ session[1].notice = "loaded"
    /\ \A f \in Fields : Offered(session[1].filter_options, f) = {None}
    /\ hist.auto[1] = 1

\* The bundle a fetch of f for the selection fs builds from the store as it
\* is.
StoreBundle(f, fs) ==
    SuccessBundle(f, [k \in 1..Len(FixedOrder(f)) |->
                        StoreRows(storeData, [name |-> FixedOrder(f)[k],
                                              where |-> WhereOf(fs)])])

\* C23: FilterSelection and AggregateResult state is session-scoped: what a
\* session's fetch returns for a FilterSelection does not depend on what
\* another session fetched before.  A session in its first run has fetched
\* nothing before, and the store keeps its contents, so each of its fetches
\* that met no failure returns the bundle built from the store.
C23_SessionScoped ==
    \A s \in Sessions :
        (Returned(s) /\ session[s].first /\ ~fetch[s].signalled) =>
            fetch[s].ret = StoreBundle(fetch[s].fetcher, fetch[s].sel)

\* What is session-scoped: a step changes the last-applied FilterSelection
\* or the stored bundles of a session only when it is a step of that
\* session's own script, and then it leaves every other session's alone.
SessionStateIsPrivate ==
    [][\A s \in Sessions :
        (session'[s].last_filters # session[s].last_filters
            \/ session'[s].last_stats # session[s].last_stats) =>
            /\ session[s].pc \in {"options", "global", "risk", "vuln"}
            /\ \A o \in Sessions \ {s} :
                /\ session'[o] = session[o]
                /\ session[o].pc = "idle"]_vars

\* A fetch of a session in its first run was answered from the entry that
\* the failed fetch of the other session had left.
FallbackOfAnotherSession ==
    /\ Returned(2)
    /\ session[2].first
    /\ fetch[2].hit
    /\ fetch[2].ret = FallbackBundle(fetch[2].fetcher)
    /\ session[1].pc = "idle"

\* C24: with two sessions calling execute_sql_query concurrently on the
\* shared connection cache and a store that answers, under every
\* interleaving the retry absorbs the race: no call fails, whatever resets
\* the other caller makes; each call makes at most two attempts and at most
\* one reset; and an attempt creates at most one connection, so the cost of
\* the race is a connection created twice.
C24_RetryAbsorbsTheRace ==
    \A c \in Sessions :
        /\ frame[c].attempt <= 1
        /\ tally[c].resets <= 1
        /\ tally[c].created <= 1
        /\ frame[c].pc = "except" => frame[c].attempt = 0
        /\ Done(c) => frame[c].result.kind = "rows"
        /\ frame[c].result.kind \notin {"error", "none"}

\* Both callers held the connection that expired: each failed once, reset
\* the cache and created a connection of its own, and both calls returned
\* rows.
C24_Witness ==
    /\ hist.expired
    /\ \A c \in Sessions :
        /\ Done(c)
        /\ frame[c].result.kind = "rows"
        /\ frame[c].attempt = 1
        /\ tally[c].resets = 1
        /\ tally[c].created = 1

-----------------------------------------------------------------------------
(* Properties of build_where_clause_with_alias *)

\* The conjunct build_where_clause gives field f alone, with the alias put
\* before its column reference.
WithAlias(fs, f, a) ==
    LET conjunct == WhereOf([g \in Fields |-> IF g = f THEN fs[g] ELSE None])
    IN  IF f = "mac_oui"
        THEN SubSeq(conjunct, 1, 15) \o a \o <<".">> \o SubSeq(conjunct, 16, Len(conjunct))
        ELSE a \o <<".">> \o conjunct

RECURSIVE ConjunctsWithAlias(_, _, _)
ConjunctsWithAlias(fs, fields, a) ==
    IF fields = <<>> THEN <<>>
    ELSE IF Len(fields) = 1 THEN WithAlias(fs, fields[1], a)
    ELSE WithAlias(fs, fields[1], a) \o <<" ", "A", "N", "D", " ">>
            \o ConjunctsWithAlias(fs, Tail(fields), a)

\* C25: for every FilterSelection and alias a, build_where_clause_with_alias
\* returns the predicate of build_where_clause with every column reference
\* prefixed by "a." (a.column = '...' and array_contains(a.mac_oui_list,
\* '...')): the same conjuncts in the same order with the same escaped
\* literals, and "1=1" when no field is set.
C25_AliasBuilderRefines ==
    aliased_clause # NotCalled =>
        /\ args = AllUnset => aliased_clause = <<"1", "=", "1">>
        /\ args # AllUnset =>
            /\ aliased_clause = ConjunctsWithAlias(args, SetFields(args), alias)
            /\ Lex(aliased_clause).literals = Lex(WhereOf(args)).literals
            /\ Len(aliased_clause) =
                    Len(WhereOf(args)) + Len(SetFields(args)) * (Len(alias) + 1)

\* All twelve fields set to a quote and an alias of two characters: twelve
\* aliased conjuncts, the membership test among them.
C25_Witness ==
    /\ aliased_clause # NotCalled
    /\ \A f \in Fields : args[f] = <<Quote>>
    /\ alias = <<"t", "1">>
    /\ Len(Lex(aliased_clause).literals) = 12
    /\ LET skeleton == Lex(aliased_clause).skeleton
       IN  SubSeq(skeleton, Len(skeleton) - 33, Len(skeleton))
            = <<"a","r","r","a","y","_","c","o","n","t","a","i","n","s","(",
                "t","1",".","m","a","c","_","o","u","i","_","l","i","s","t",
                ","," ","?",")">>

-----------------------------------------------------------------------------
(* Properties of a failed fetch *)

\* C26: the empty fallback bundle a fetcher returns on failure is cached
\* under the FilterSelection key like a successful bundle: once a fetch for
\* a selection has failed, the entry is the fallback bundle, the fetcher's
\* body is not run again for that selection, and every later fetch for it
\* returns the fallback bundle from the cache without issuing a query,
\* whatever the store would answer by then.
C26_FallbackIsCached ==
    \A f \in Fetchers : \A fs \in SessionSelections :
        (<<f, fs>> \in DOMAIN hist.first /\ hist.first[<<f, fs>>] = FallbackBundle(f)) =>
            /\ CacheKey(f, fs) \in DOMAIN resultCache
            /\ resultCache[CacheKey(f, fs)] = FallbackBundle(f)
            /\ hist.runs[<<f, fs>>] = 1
            /\ \A s \in Sessions :
                (Returned(s) /\ fetch[s].fetcher = f /\ fetch[s].sel = fs) =>
                    /\ fetch[s].ret = FallbackBundle(f)
                    /\ fetch[s].hit =>
                        /\ fetch[s].issued = <<>>
                        /\ fetch[s].queries = 0
                        /\ frame[s].pc = "idle"

\* A Global fetch is answered with the cached fallback bundle, without a
\* query, in a process whose store has answered the Risk queries since.
C26_Witness ==
    /\ Returned(1)
    /\ fetch[1].fetcher = "global"
    /\ fetch[1].hit
    /\ fetch[1].issued = <<>>
    /\ fetch[1].ret = FallbackBundle("global")
    /\ <<"risk", fetch[1].sel>> \in DOMAIN resultCache
    /\ resultCache[<<"risk", fetch[1].sel>>] # FallbackBundle("risk")
    /\ storeData = 1

\* The bundle holds no result of the store: every table is the empty frame
\* without columns and every count is zero.
AllFallback(f, bundle) ==
    /\ \A k \in TableKeys(f) : bundle[k] = EmptyDataFrame
    /\ \A k \in CountKeys(f) : bundle[k] = 0

\* Every table of the bundle is a frame built from a result of the store.
AllFromStore(f, bundle) ==
    \A k \in TableKeys(f) : bundle[k] # EmptyDataFrame /\ Len(bundle[k].columns) > 0

\* C27: a fetcher's bundle is all-or-nothing: when a query of a fetch fails
\* after its retry, no query is issued after it and the results of the
\* queries that had succeeded are discarded, so a returned bundle never
\* mixes store results with fallback values.
C27_AllOrNothing ==
    \A s \in Sessions :
        Returned(s) =>
            LET f == fetch[s].fetcher
            IN  /\ AllFallback(f, fetch[s].ret) \/ AllFromStore(f, fetch[s].ret)
                /\ fetch[s].signalled =>
                    /\ AllFallback(f, fetch[s].ret)
                    /\ Len(fetch[s].issued) = Len(fetch[s].results) + 1
                    /\ Len(fetch[s].results) < FixedCount(f)
                /\ (~fetch[s].signalled /\ ~fetch[s].hit) =>
                    /\ AllFromStore(f, fetch[s].ret)
                    /\ Len(fetch[s].results) = FixedCount(f)

\* The eighth query of a Global fetch failed after seven had returned rows:
\* the bundle returned holds none of them.
C27_Witness ==
    /\ Returned(1)
    /\ fetch[1].fetcher = "global"
    /\ fetch[1].signalled
    /\ Len(fetch[1].results) = 7
    /\ Len(fetch[1].issued) = 8
    /\ fetch[1].results[1] # <<>>
    /\ AllFallback("global", fetch[1].ret)

-----------------------------------------------------------------------------
(* Properties of the end of a render *)

\* The run of the session's script has ended.
RenderEnded(s) == session[s].pc = "idle" /\ session[s].started

\* The run ended in st.stop(), before st.tabs.
Halted(s) == session[s].notice \in {"no_data", "select_filters"}

\* The stored part of fetcher f is what the fetcher returns for fs.
HoldsResultFor(s, f, fs) ==
    /\ CacheKey(f, fs) \in DOMAIN resultCache
    /\ Part(session[s].last_stats, f) = resultCache[CacheKey(f, fs)]

C29_HaltPersists ==
    \A s \in Sessions :
        /\ session[s].notice # "adjust_filters"
        /\ (session[s].after_halt /\ ~session[s].submitted) =>
            /\ fetch[s].pc = "none"
            /\ session[s].pc \in {"options", "idle"}
            /\ ~session[s].should_query
            /\ session[s].pc = "idle" =>
                /\ session[s].notice = "select_filters"
                /\ activeTab[s] = NoTabs
                /\ session[s].vuln_needs_refresh

\* A render without apply that followed a halted one has halted too, in a
\* session that has applied before, although the store holds rows by now.
C29_Witness ==
    /\ RenderEnded(1)
    /\ session[1].after_halt
    /\ ~session[1].submitted
    /\ session[1].notice = "select_filters"
    /\ storeData = 1
    /\ PrimaryTablesEmpty(session[1].last_stats)
    /\ hist.apply[1].applied

====
